---- MODULE Spec2Model ----
(***************************************************************************)
(* State-machine model of the dashboard front end of rag-app-agent-llm:    *)
(*   - ChatComponent (frontend/components/core/ChatComponent.tsx, the      *)
(*     second, current definition starting at line 184), and               *)
(*   - KnowledgeBaseComponent (.../KnowledgeBaseComponent.tsx, the second  *)
(*     definition starting at line 272).                                   *)
(* React state variables are the model's variables; every event handler    *)
(* is one action up to its first await, and every awaited response is one  *)
(* action that runs the rest of the handler.  The REST back end is the     *)
(* environment: a request is answered (ok or failure) at the moment its    *)
(* response is delivered.                                                  *)
(* The back-end cores the dashboard talks to (ingestion and chunking,      *)
(* the ReAct reasoning loop, the Retrieval Strategy Engine) are not part   *)
(* of the front-end sources; they are modelled from sections 4.1 - 4.3 of  *)
(* the specification.                                                      *)
(***************************************************************************)
EXTENDS Naturals, Integers, Sequences, FiniteSets, Bags, TLC

\* ------------------------------------------------------------------ bounds
NumAgents == 1
NumCommunications == 1
MaxConversations == 2
MaxTurns == 2
MaxInFlight == 2
MaxInputLen == 1
NumKBs == 1
NumListedKBs == 2
MaxDocs == 2
MaxKbInFlight == 2

AgentIds == 1..NumAgents
CommunicationIds == 1..NumCommunications
None == 0

\* ------------------------------------------------------- ChatComponent state
VARIABLES
  agents,                 \* useState<Agent[]>: ids of the loaded agents
  communications,         \* useState<Communication[]>
  selectedAgent,          \* Agent | null (None)
  selectedCommunication,  \* Communication | null (None)
  conversations,          \* Conversation[]: records [id, messages]
  currentConversation,    \* Conversation | null: only .id is ever read
  messages,               \* Message[]: records [role, turn, pending]
  input,                  \* string, a sequence of characters
  loading,                \* boolean
  error,                  \* string
  chatMode,               \* 'agent' | 'communication'
  chatCalls,              \* one entry per sendMessage call: request and position
  net,                    \* outstanding fetch calls other than chat requests
  store                   \* back end: conversations created so far, by id

chatVars == <<agents, communications, selectedAgent, selectedCommunication,
              conversations, currentConversation, messages, input, loading,
              error, chatMode, chatCalls, net, store>>

\* ------------------------------------------------ KnowledgeBaseComponent state
VARIABLES
  knowledgeBases,         \* KnowledgeBase[]: ids of the listed knowledge bases
  selectedKB,             \* KnowledgeBase | null: only .id is ever read
  documents,              \* Document[]: records [id, status]
  file,                   \* File | null
  uploadProgress,         \* number
  kbError,                \* error: string | null
  processingDocs,         \* Record<string, boolean>, absent counted as false
  processingProgress,     \* Record<string, number>, absent counted as 0
  deleteInProgress,       \* Record<string, boolean>, absent counted as false
  kbNet,                  \* outstanding fetch calls of the component
  kbDocs,                 \* back end: the documents uploaded so far, by id
  statusCase              \* back end: spelling of the status strings it reports

kbVars == <<knowledgeBases, selectedKB, documents, file, uploadProgress,
            kbError, processingDocs, processingProgress, deleteInProgress,
            kbNet, kbDocs, statusCase>>

\* --------------------------------- knowledge-base forms and ingestion core
VARIABLES
  newKBData,              \* useState<NewKBData>: [rag_type, chunk_size, chunk_overlap]
  editingKB,              \* KnowledgeBase | null: [id, rag_config]
  kbStore,                \* back end: rag_config of the knowledge bases, by id
  corpus,                 \* ingestion: documents [kb, text, status, result], by id
  vectorStore,            \* chunks [kb, doc, ordinal, span, vector]
  runs,                   \* ingestion runs in progress, by document id
  splitter,               \* one run of the chunker over one text
  turn,                   \* Agent Core: one turn of the reasoning loop
  search                  \* Retrieval Strategy Engine: one retrieve call

\* ------------------------------------------------------ AgentComponent state
VARIABLES
  foundations,            \* useState<Foundation[]>: ids of the loaded foundations
  configs,                \* useState<Config[]>: ids of the configs last fetched
  agentFormData,          \* formData: [foundation_id, config_id]
  selectedFoundationId,   \* number | undefined (None)
  editingAgent,           \* Agent | null: [id, foundation_id, config_id]
  agentList,              \* agents: Agent[] as last fetched
  agentNet,               \* outstanding fetch calls of the component
  agentStore              \* back end: the agents created so far, by id

agentVars == <<foundations, configs, agentFormData, selectedFoundationId,
               editingAgent, agentList, agentNet, agentStore>>

\* ----------------------------------------------- CommunicationComponent state
VARIABLES
  groupAgents,            \* agents: Agent[], ids of the loaded agents
  groupFormData,          \* formData: only agent_ids, a list of ids
  editingCommunication,   \* Communication | null: [id, agents]
  groupList,              \* communications: Communication[] as last fetched
  groupNet,               \* outstanding fetch calls of the component
  groupStore              \* back end: agent_ids of the communications, by id

commVars == <<groupAgents, groupFormData, editingCommunication, groupList,
              groupNet, groupStore>>

adminVars == <<agentVars, commVars>>

VARIABLE
  session                 \* Orchestrator: one Communication-owned conversation

engineVars == <<turn, search, session>>

coreVars == <<newKBData, editingKB, kbStore, corpus, vectorStore, runs,
              splitter, engineVars, adminVars>>

\* everything but the engines' own state
uiVars == <<chatVars, kbVars, newKBData, editingKB, kbStore, corpus,
            vectorStore, runs, adminVars>>

vars == <<chatVars, kbVars, coreVars>>

\* ------------------------------------------------------------ pure helpers
Chars == {" ", "a"}

RECURSIVE SeqsUpTo(_, _)
SeqsUpTo(S, n) ==
  IF n = 0 THEN {<<>>}
  ELSE LET shorter == SeqsUpTo(S, n - 1)
       IN  shorter \cup {Append(s, x) : s \in {t \in shorter : Len(t) = n - 1}, x \in S}

Inputs == SeqsUpTo(Chars, MaxInputLen)

\* String.prototype.trim: drop leading and trailing white space
RECURSIVE TrimLeft(_)
TrimLeft(s) == IF s # <<>> /\ Head(s) = " " THEN TrimLeft(Tail(s)) ELSE s

RECURSIVE TrimRight(_)
TrimRight(s) ==
  IF s # <<>> /\ s[Len(s)] = " " THEN TrimRight(SubSeq(s, 1, Len(s) - 1)) ELSE s

Trim(s) == TrimRight(TrimLeft(s))

NotPending(msg) == ~msg.pending

\* prev.filter(msg => !msg.pending)
filtered(prev) == SelectSeq(prev, NotPending)

userMessage(t) == [role |-> "user", turn |-> t, pending |-> FALSE]
loadingMessage(t) == [role |-> "assistant", turn |-> t, pending |-> TRUE]
assistantMessage(t) == [role |-> "assistant", turn |-> t, pending |-> FALSE]

Range(s) == {s[i] : i \in 1..Len(s)}

\* --------------------------------------------------------------- rendering
\* lines 485 and 522: the conversation list, New Chat and the form are rendered
PanelRendered == selectedAgent # None \/ selectedCommunication # None

\* line 541: disabled attribute of the message <Input>
InputDisabled == currentConversation = None \/ loading

\* lines 544-547: disabled attribute of the submit <Button>
SubmitDisabled == currentConversation = None \/ loading \/ Trim(input) = <<>>

\* ------------------------------------------------------------------- Init
ChatInit ==
  /\ agents = {}
  /\ communications = {}
  /\ selectedAgent = None
  /\ selectedCommunication = None
  /\ conversations = <<>>
  /\ currentConversation = None
  /\ messages = <<>>
  /\ input = <<>>
  /\ loading = FALSE
  /\ error = ""
  /\ chatMode = "agent"
  /\ chatCalls = <<>>
  /\ net = SetToBag({[op |-> "fetchAgents"], [op |-> "fetchCommunications"]})
  /\ store = <<>>

\* -------------------------------------------------------------- back end
\* GET /chat/conversations/{agent|communication}/get-all: the conversations
\* created under that owner, each with its stored messages
RECURSIVE conversationsOf(_, _, _)
conversationsOf(kind, id, upTo) ==
  IF upTo = 0 THEN <<>>
  ELSE conversationsOf(kind, id, upTo - 1) \o
       (IF store[upTo].owner = kind /\ store[upTo].ownerId = id
        THEN <<[id |-> upTo, messages |-> store[upTo].log]>>
        ELSE <<>>)

Send(req) == net' = net (+) SetToBag({req})
Complete(req) == net' = net (-) SetToBag({req})
CanSend == BagCardinality(net) < MaxInFlight

\* ------------------------------------------------------ fetchAgents etc.
fetchAgents_done(ok) ==
  /\ BagIn([op |-> "fetchAgents"], net)
  /\ Complete([op |-> "fetchAgents"])
  /\ IF ok THEN agents' = AgentIds /\ UNCHANGED error
     ELSE error' = "Failed to load agents" /\ UNCHANGED agents
  /\ UNCHANGED <<communications, selectedAgent, selectedCommunication,
                 conversations, currentConversation, messages, input, loading,
                 chatMode, chatCalls, store>>
  /\ UNCHANGED <<kbVars, coreVars>>

fetchCommunications_done(ok) ==
  /\ BagIn([op |-> "fetchCommunications"], net)
  /\ Complete([op |-> "fetchCommunications"])
  /\ IF ok THEN communications' = CommunicationIds /\ UNCHANGED error
     ELSE error' = "Failed to load communications" /\ UNCHANGED communications
  /\ UNCHANGED <<agents, selectedAgent, selectedCommunication,
                 conversations, currentConversation, messages, input, loading,
                 chatMode, chatCalls, store>>
  /\ UNCHANGED <<kbVars, coreVars>>

\* the call of fetchConversations up to its await
fetchConversations(id, is_agent) ==
  [op |-> "fetchConversations", id |-> id, is_agent |-> is_agent]

\* the rest of fetchConversations once the response is there
fetchConversations_done(req, ok) ==
  /\ BagIn(req, net) /\ req.op = "fetchConversations"
  /\ Complete(req)
  /\ IF ok
     THEN /\ conversations' =
               conversationsOf(IF req.is_agent THEN "agent" ELSE "communication",
                               req.id, Len(store))
          /\ UNCHANGED error
     ELSE /\ error' = "Failed to load conversations"
          /\ UNCHANGED conversations
  /\ UNCHANGED <<agents, communications, selectedAgent, selectedCommunication,
                 currentConversation, messages, input, loading, chatMode,
                 chatCalls, store>>
  /\ UNCHANGED <<kbVars, coreVars>>

\* ------------------------------------------------- agent / group selects
\* onValueChange of the agent <Select> (shown when chatMode === 'agent'),
\* followed by the [selectedAgent] effect
selectAgent(a) ==
  /\ chatMode = "agent"
  /\ a \in agents
  /\ selectedAgent' = a
  /\ currentConversation' = None
  /\ messages' = <<>>
  /\ conversations' = <<>>
  /\ IF a # selectedAgent
     THEN CanSend /\ Send(fetchConversations(a, TRUE))
     ELSE UNCHANGED net
  /\ UNCHANGED <<agents, communications, selectedCommunication, input, loading,
                 error, chatMode, chatCalls, store>>
  /\ UNCHANGED <<kbVars, coreVars>>

\* onValueChange of the group <Select> (shown otherwise), followed by the
\* [selectedCommunication] effect
selectCommunication(c) ==
  /\ chatMode # "agent"
  /\ c \in communications
  /\ selectedCommunication' = c
  /\ currentConversation' = None
  /\ messages' = <<>>
  /\ conversations' = <<>>
  /\ IF c # selectedCommunication
     THEN CanSend /\ Send(fetchConversations(c, FALSE))
     ELSE UNCHANGED net
  /\ UNCHANGED <<agents, communications, selectedAgent, input, loading,
                 error, chatMode, chatCalls, store>>
  /\ UNCHANGED <<kbVars, coreVars>>

handleModeChange_keepSelection(mode) ==
  /\ chatMode' = mode
  /\ currentConversation' = None
  /\ messages' = <<>>
  /\ conversations' = <<>>
  /\ UNCHANGED <<agents, communications, selectedAgent, selectedCommunication,
                 input, loading, error, chatCalls, net, store>>
  /\ UNCHANGED <<kbVars, coreVars>>

handleModeChange(mode) ==
  /\ chatMode' = mode
  /\ selectedAgent' = None
  /\ selectedCommunication' = None
  /\ currentConversation' = None
  /\ messages' = <<>>
  /\ conversations' = <<>>
  /\ UNCHANGED <<agents, communications, input, loading, error, chatCalls,
                 net, store>>
  /\ UNCHANGED <<kbVars, coreVars>>

\* onValueChange of <Tabs>: fires when another tab is chosen
changeTab(mode) ==
  /\ mode # chatMode
  /\ handleModeChange(mode)

\* ------------------------------------------------- createNewConversation
\* lines 314-329: the url and body the request is built with
createRequest ==
  IF chatMode = "agent" /\ selectedAgent # None
  THEN [url |-> "agent/create", agent_id |-> selectedAgent,
        communication_id |-> None]
  ELSE IF chatMode = "communication" /\ selectedCommunication # None
  THEN [url |-> "communication/create", agent_id |-> None,
        communication_id |-> selectedCommunication]
  ELSE [url |-> "", agent_id |-> None, communication_id |-> None]

\* click on New Chat, up to the await; the closure keeps the conversations
\* of the render the click happened in
createNewConversation ==
  /\ PanelRendered
  /\ ~(selectedAgent = None /\ selectedCommunication = None)
  /\ CanSend
  /\ Send([op |-> "create", request |-> createRequest,
           conversations |-> conversations])
  /\ UNCHANGED <<agents, communications, selectedAgent, selectedCommunication,
                 conversations, currentConversation, messages, input, loading,
                 error, chatMode, chatCalls, store>>
  /\ UNCHANGED <<kbVars, coreVars>>

\* POST /chat/conversations/{agent|communication}/create on the back end
created(request) ==
  [owner |-> IF request.url = "agent/create" THEN "agent" ELSE "communication",
   ownerId |-> IF request.url = "agent/create" THEN request.agent_id
               ELSE request.communication_id,
   log |-> <<>>]

\* the rest of createNewConversation once the response is there
createNewConversation_done(req, ok) ==
  /\ BagIn(req, net) /\ req.op = "create"
  /\ Complete(req)
  /\ IF ok /\ req.request.url # "" /\ Len(store) < MaxConversations
     THEN /\ store' = Append(store, created(req.request))
          /\ conversations' =
               Append(req.conversations,
                      [id |-> Len(store) + 1, messages |-> <<>>])
          /\ currentConversation' = Len(store) + 1
          /\ messages' = <<>>
          /\ UNCHANGED error
     ELSE /\ error' = "Failed to create new conversation"
          /\ UNCHANGED <<store, conversations, currentConversation, messages>>
  /\ UNCHANGED <<agents, communications, selectedAgent, selectedCommunication,
                 input, loading, chatMode, chatCalls>>
  /\ UNCHANGED <<kbVars, coreVars>>

\* ---------------------------------------------- conversation click handler
selectConversation(i) ==
  /\ PanelRendered
  /\ i \in 1..Len(conversations)
  /\ currentConversation' = conversations[i].id
  /\ messages' = conversations[i].messages
  /\ UNCHANGED <<agents, communications, selectedAgent, selectedCommunication,
                 conversations, input, loading, error, chatMode, chatCalls,
                 net, store>>
  /\ UNCHANGED <<kbVars, coreVars>>

\* onChange of the message <Input>
setInput(value) ==
  /\ PanelRendered
  /\ ~InputDisabled
  /\ value # input
  /\ input' = value
  /\ UNCHANGED <<agents, communications, selectedAgent, selectedCommunication,
                 conversations, currentConversation, messages, loading, error,
                 chatMode, chatCalls, net, store>>
  /\ UNCHANGED <<kbVars, coreVars>>

\* ------------------------------------------------------------ sendMessage
\* lines 368-376: the body of the chat request
messageData(t) ==
  [conversation_id |-> currentConversation,
   turn |-> t,
   type |-> IF chatMode = "agent" /\ selectedAgent # None
            THEN "agent" ELSE "communication"]

sendMessage_noLoading ==
  /\ PanelRendered
  /\ ~(Trim(input) = <<>> \/ currentConversation = None)
  /\ Len(chatCalls) < MaxTurns
  /\ LET t == Len(chatCalls) + 1 IN
       /\ messages' = messages \o <<userMessage(t), loadingMessage(t)>>
       /\ chatCalls' = Append(chatCalls, [request |-> messageData(t),
                                          pc |-> "awaiting"])
  /\ UNCHANGED <<agents, communications, selectedAgent, selectedCommunication,
                 conversations, currentConversation, error, chatMode, net,
                 store, input, loading>>
  /\ UNCHANGED <<kbVars, coreVars>>

\* submit of the message form, up to the await
sendMessage ==
  /\ PanelRendered
  /\ ~SubmitDisabled
  /\ ~(Trim(input) = <<>> \/ currentConversation = None)
  /\ Len(chatCalls) < MaxTurns
  /\ LET t == Len(chatCalls) + 1 IN
       /\ messages' = messages \o <<userMessage(t), loadingMessage(t)>>
       /\ chatCalls' = Append(chatCalls, [request |-> messageData(t),
                                          pc |-> "awaiting"])
  /\ input' = <<>>
  /\ loading' = TRUE
  /\ UNCHANGED <<agents, communications, selectedAgent, selectedCommunication,
                 conversations, currentConversation, error, chatMode, net,
                 store>>
  /\ UNCHANGED <<kbVars, coreVars>>

\* POST /chat/chat on the back end: the turn is appended to the conversation
chatStored(t) ==
  LET c == chatCalls[t].request.conversation_id IN
  [store EXCEPT ![c].log = @ \o <<userMessage(t), assistantMessage(t)>>]

\* a sendMessage call that has returned: its request is gone
settled(outcome) == [request |-> None, pc |-> outcome]

sendMessage_done_keepPending(t, ok) ==
  /\ t \in 1..Len(chatCalls)
  /\ chatCalls[t].pc = "awaiting"
  /\ IF ok
     THEN /\ messages' = Append(filtered(messages), assistantMessage(t))
          /\ store' = chatStored(t)
          /\ chatCalls' = [chatCalls EXCEPT ![t] = settled("resolved")]
          /\ UNCHANGED error
     ELSE /\ error' = "Failed to send message"
          /\ chatCalls' = [chatCalls EXCEPT ![t] = settled("rejected")]
          /\ UNCHANGED <<store, messages>>
  /\ loading' = FALSE
  /\ UNCHANGED <<agents, communications, selectedAgent, selectedCommunication,
                 conversations, currentConversation, input, chatMode, net>>
  /\ UNCHANGED <<kbVars, coreVars>>

\* the rest of sendMessage once the response is there
sendMessage_done(t, ok) ==
  /\ t \in 1..Len(chatCalls)
  /\ chatCalls[t].pc = "awaiting"
  /\ IF ok
     THEN /\ messages' = Append(filtered(messages), assistantMessage(t))
          /\ store' = chatStored(t)
          /\ chatCalls' = [chatCalls EXCEPT ![t] = settled("resolved")]
          /\ UNCHANGED error
     ELSE /\ error' = "Failed to send message"
          /\ messages' = filtered(messages)
          /\ chatCalls' = [chatCalls EXCEPT ![t] = settled("rejected")]
          /\ UNCHANGED store
  /\ loading' = FALSE
  /\ UNCHANGED <<agents, communications, selectedAgent, selectedCommunication,
                 conversations, currentConversation, input, chatMode, net>>
  /\ UNCHANGED <<kbVars, coreVars>>

\* ------------------------------------------------------------------ Next
ChatNext ==
  \/ \E ok \in BOOLEAN : fetchAgents_done(ok)
  \/ \E ok \in BOOLEAN : fetchCommunications_done(ok)
  \/ \E a \in AgentIds : selectAgent(a)
  \/ \E c \in CommunicationIds : selectCommunication(c)
  \/ \E mode \in {"agent", "communication"} : changeTab(mode)
  \/ \E req \in BagToSet(net), ok \in BOOLEAN : fetchConversations_done(req, ok)
  \/ createNewConversation
  \/ \E req \in BagToSet(net), ok \in BOOLEAN : createNewConversation_done(req, ok)
  \/ \E i \in 1..MaxConversations : selectConversation(i)
  \/ \E value \in Inputs : setInput(value)
  \/ sendMessage
  \/ \E t \in 1..MaxTurns, ok \in BOOLEAN : sendMessage_done(t, ok)


\* ================================================ KnowledgeBaseComponent
KBIds == 1..NumKBs
\* the knowledge bases of a back end that holds several
ListedKBIds == 1..NumListedKBs
DocIds == 1..MaxDocs
\* keys of deleteInProgress: ids of knowledge bases and of documents
Ids == KBIds \cup ListedKBIds \cup DocIds

Statuses == {"UPLOADED", "PENDING", "PROCESSING", "PROCESSED", "FAILED"}

\* String.prototype.toUpperCase on the status strings
toUpperCase(status) ==
  CASE status \in {"uploaded", "UPLOADED"} -> "UPLOADED"
    [] status \in {"pending", "PENDING"} -> "PENDING"
    [] status \in {"processing", "PROCESSING"} -> "PROCESSING"
    [] status \in {"processed", "PROCESSED"} -> "PROCESSED"
    [] status \in {"failed", "FAILED"} -> "FAILED"

toLowerCase(status) ==
  CASE status = "UPLOADED" -> "uploaded"
    [] status = "PENDING" -> "pending"
    [] status = "PROCESSING" -> "processing"
    [] status = "PROCESSED" -> "processed"
    [] status = "FAILED" -> "failed"

\* the status string of a document as the back end reports it
reported(status) ==
  IF statusCase = "upper" THEN status ELSE toLowerCase(status)

\* GET /kb/{id}/documents: the documents of the knowledge base
RECURSIVE documentsOf(_, _)
documentsOf(kbId, upTo) ==
  IF upTo = 0 THEN <<>>
  ELSE documentsOf(kbId, upTo - 1) \o
       (IF kbDocs[upTo].kb = kbId /\ kbDocs[upTo].status # "DELETED"
        THEN <<[id |-> upTo, status |-> reported(kbDocs[upTo].status)]>>
        ELSE <<>>)

Stored(docId) == docId \in 1..Len(kbDocs) /\ kbDocs[docId].status # "DELETED"

KbSend(req) == kbNet' = kbNet (+) SetToBag({req})
KbComplete(req) == kbNet' = kbNet (-) SetToBag({req})
KbContinue(req, next) == kbNet' = (kbNet (-) SetToBag({req})) (+) SetToBag({next})
KbCanSend == BagCardinality(kbNet) < MaxKbInFlight

KBInit ==
  /\ knowledgeBases = <<>>
  /\ selectedKB = None
  /\ documents = <<>>
  /\ file = None
  /\ uploadProgress = 0
  /\ kbError = "null"
  /\ processingDocs = [d \in DocIds |-> FALSE]
  /\ processingProgress = [d \in DocIds |-> 0]
  /\ deleteInProgress = [i \in Ids |-> FALSE]
  /\ kbNet = SetToBag({[op |-> "fetchKnowledgeBases"]})
  /\ kbDocs = <<>>
  /\ statusCase \in {"lower", "upper"}

\* --------------------------------------------------- fetchKnowledgeBases
fetchKnowledgeBases_done(ok) ==
  /\ BagIn([op |-> "fetchKnowledgeBases"], kbNet)
  /\ KbComplete([op |-> "fetchKnowledgeBases"])
  /\ IF ok THEN knowledgeBases' = [i \in KBIds |-> i] /\ UNCHANGED kbError
     ELSE kbError' = "Failed to fetch knowledge bases" /\ UNCHANGED knowledgeBases
  /\ UNCHANGED <<selectedKB, documents, file, uploadProgress, processingDocs,
                 processingProgress, deleteInProgress, kbDocs, statusCase>>
  /\ UNCHANGED <<chatVars, coreVars>>

\* -------------------------------------------------------- fetchDocuments
\* the call of fetchDocuments up to its await; continuation names what the
\* caller does once fetchDocuments has returned
fetchDocuments(kbId, continuation) ==
  [op |-> "fetchDocuments", kbId |-> kbId, continuation |-> continuation]

\* the rest of fetchDocuments once the response is there, and then the rest
\* of the handler that awaited it
fetchDocuments_done(req, ok) ==
  /\ BagIn(req, kbNet) /\ req.op = "fetchDocuments"
  /\ KbComplete(req)
  /\ IF ok
     THEN /\ documents' = documentsOf(req.kbId, Len(kbDocs))
          /\ UNCHANGED kbError
     ELSE /\ kbError' = "Failed to fetch documents"
          /\ UNCHANGED documents
  /\ processingDocs' =
       IF req.continuation.of = "startDocumentProcessing"
       THEN [processingDocs EXCEPT ![req.continuation.docId] = FALSE]
       ELSE processingDocs
  /\ file' = IF req.continuation.of = "handleFileUpload" THEN None ELSE file
  /\ UNCHANGED <<knowledgeBases, selectedKB, uploadProgress,
                 processingProgress, deleteInProgress, kbDocs, statusCase>>
  /\ UNCHANGED <<chatVars, coreVars>>

NoContinuation == [of |-> "none", docId |-> None]

\* click on a knowledge-base card
selectKB(kb) ==
  /\ kb \in Range(knowledgeBases)
  /\ KbCanSend
  /\ selectedKB' = kb
  /\ KbSend(fetchDocuments(kb, NoContinuation))
  /\ UNCHANGED <<knowledgeBases, documents, file, uploadProgress, kbError,
                 processingDocs, processingProgress, deleteInProgress, kbDocs,
                 statusCase>>
  /\ UNCHANGED <<chatVars, coreVars>>

\* ------------------------------------------------------ handleFileUpload
\* onChange of the file <Input> of the documents tab
setFile(f) ==
  /\ selectedKB # None
  /\ f # file
  /\ file' = f
  /\ UNCHANGED <<knowledgeBases, selectedKB, documents, uploadProgress,
                 kbError, processingDocs, processingProgress,
                 deleteInProgress, kbNet, kbDocs, statusCase>>
  /\ UNCHANGED <<chatVars, coreVars>>

\* click on Upload Document, up to the await
handleFileUpload ==
  /\ selectedKB # None
  /\ file # None
  /\ ~(file = None \/ selectedKB = None)
  /\ KbCanSend
  /\ uploadProgress' = 0
  /\ KbSend([op |-> "upload", kbId |-> selectedKB])
  /\ UNCHANGED <<knowledgeBases, selectedKB, documents, file, kbError,
                 processingDocs, processingProgress, deleteInProgress, kbDocs,
                 statusCase>>
  /\ UNCHANGED <<chatVars, coreVars>>

\* POST /kb/{id}/documents on the back end: a new document, status UPLOADED
uploaded(kbId) == [kb |-> kbId, status |-> "UPLOADED"]

\* the rest of handleFileUpload once the upload response is there
handleFileUpload_done(req, ok) ==
  /\ BagIn(req, kbNet) /\ req.op = "upload"
  /\ IF ok /\ Len(kbDocs) < MaxDocs
     THEN /\ kbDocs' = Append(kbDocs, uploaded(req.kbId))
          /\ uploadProgress' = 100
          /\ KbContinue(req, fetchDocuments(req.kbId,
                               [of |-> "handleFileUpload", docId |-> None]))
          /\ UNCHANGED kbError
     ELSE /\ kbError' = "Upload failed"
          /\ uploadProgress' = 0
          /\ KbComplete(req)
          /\ UNCHANGED kbDocs
  /\ UNCHANGED <<knowledgeBases, selectedKB, documents, file, processingDocs,
                 processingProgress, deleteInProgress, statusCase>>
  /\ UNCHANGED <<chatVars, coreVars>>

\* ----------------------------------------------- startDocumentProcessing
\* line 563: the Start button is rendered for the document
StartOffered(doc) == doc.status # "processed"

\* line 568: disabled attribute of the Start button
StartDisabled(doc) == processingDocs[doc.id] \/ doc.status = "PROCESSING"

\* line 588: disabled attribute of the document's delete button
DeleteDisabled(doc) == deleteInProgress[doc.id]

\* click on Start, up to the await
startDocumentProcessing(docId) ==
  /\ selectedKB # None
  /\ \E i \in 1..Len(documents) :
       /\ documents[i].id = docId
       /\ StartOffered(documents[i])
       /\ ~StartDisabled(documents[i])
  /\ KbCanSend
  /\ processingDocs' = [processingDocs EXCEPT ![docId] = TRUE]
  /\ processingProgress' = [processingProgress EXCEPT ![docId] = 0]
  /\ KbSend([op |-> "process", kbId |-> selectedKB, docId |-> docId,
             stage |-> "sent"])
  /\ UNCHANGED <<knowledgeBases, selectedKB, documents, file, uploadProgress,
                 kbError, deleteInProgress, kbDocs, statusCase>>
  /\ UNCHANGED <<chatVars, coreVars>>

\* POST /kb/{id}/documents/{docId}/process on the back end: the run enters
\* PENDING ...
process_accept(req) ==
  /\ BagIn(req, kbNet) /\ req.op = "process" /\ req.stage = "sent"
  /\ Stored(req.docId)
  /\ kbDocs' = [kbDocs EXCEPT ![req.docId].status = "PENDING"]
  /\ KbContinue(req, [req EXCEPT !.stage = "pending"])
  /\ UNCHANGED <<knowledgeBases, selectedKB, documents, file, uploadProgress,
                 kbError, processingDocs, processingProgress,
                 deleteInProgress, statusCase>>
  /\ UNCHANGED <<chatVars, coreVars>>

\* ... then PROCESSING ...
process_begin(req) ==
  /\ BagIn(req, kbNet) /\ req.op = "process" /\ req.stage = "pending"
  /\ Stored(req.docId)
  /\ kbDocs' = [kbDocs EXCEPT ![req.docId].status = "PROCESSING"]
  /\ KbContinue(req, [req EXCEPT !.stage = "processing"])
  /\ UNCHANGED <<knowledgeBases, selectedKB, documents, file, uploadProgress,
                 kbError, processingDocs, processingProgress,
                 deleteInProgress, statusCase>>
  /\ UNCHANGED <<chatVars, coreVars>>

process_end_anyStage(req, outcome) ==
  IF Stored(req.docId) /\ outcome = "processed"
  THEN [kbDocs EXCEPT ![req.docId].status = "PROCESSED"]
  ELSE IF Stored(req.docId) /\ outcome = "failed"
  THEN [kbDocs EXCEPT ![req.docId].status = "FAILED"]
  ELSE kbDocs

\* ... and ends PROCESSED or FAILED; a run cut short by a timeout or crash
\* leaves the status where it was
process_end(req, outcome) ==
  IF Stored(req.docId) /\ req.stage = "processing" /\ outcome = "processed"
  THEN [kbDocs EXCEPT ![req.docId].status = "PROCESSED"]
  ELSE IF Stored(req.docId) /\ req.stage = "processing" /\ outcome = "failed"
  THEN [kbDocs EXCEPT ![req.docId].status = "FAILED"]
  ELSE kbDocs

Outcomes == {"processed", "failed", "aborted"}

startDocumentProcessing_done_resetProgress(req, outcome) ==
  /\ BagIn(req, kbNet) /\ req.op = "process"
  /\ kbDocs' = process_end(req, outcome)
  /\ IF Stored(req.docId) /\ req.stage = "processing" /\ outcome = "processed"
     THEN /\ processingProgress' = [d \in DocIds |-> IF d = req.docId THEN 100 ELSE 0]
          /\ KbContinue(req, fetchDocuments(req.kbId,
                               [of |-> "startDocumentProcessing",
                                docId |-> req.docId]))
          /\ UNCHANGED <<kbError, processingDocs>>
     ELSE /\ kbError' = "Processing failed"
          /\ processingDocs' = [d \in DocIds |-> FALSE]
          /\ KbComplete(req)
          /\ UNCHANGED processingProgress
  /\ UNCHANGED <<knowledgeBases, selectedKB, documents, file, uploadProgress,
                 deleteInProgress, statusCase>>
  /\ UNCHANGED <<chatVars, coreVars>>

\* the rest of startDocumentProcessing once the process response is there
startDocumentProcessing_done(req, outcome) ==
  /\ BagIn(req, kbNet) /\ req.op = "process"
  /\ kbDocs' = process_end(req, outcome)
  /\ IF Stored(req.docId) /\ req.stage = "processing" /\ outcome = "processed"
     THEN /\ processingProgress' = [processingProgress EXCEPT ![req.docId] = 100]
          /\ KbContinue(req, fetchDocuments(req.kbId,
                               [of |-> "startDocumentProcessing",
                                docId |-> req.docId]))
          /\ UNCHANGED <<kbError, processingDocs>>
     ELSE /\ kbError' = "Processing failed"
          /\ processingDocs' = [processingDocs EXCEPT ![req.docId] = FALSE]
          /\ KbComplete(req)
          /\ UNCHANGED processingProgress
  /\ UNCHANGED <<knowledgeBases, selectedKB, documents, file, uploadProgress,
                 deleteInProgress, statusCase>>
  /\ UNCHANGED <<chatVars, coreVars>>

\* --------------------------------------------------- handleDeleteDocument
\* click on a document's delete button, up to the await
handleDeleteDocument(docId) ==
  /\ selectedKB # None
  /\ \E i \in 1..Len(documents) :
       documents[i].id = docId /\ ~DeleteDisabled(documents[i])
  /\ KbCanSend
  /\ deleteInProgress' = [deleteInProgress EXCEPT ![docId] = TRUE]
  /\ KbSend([op |-> "deleteDocument", kbId |-> selectedKB, docId |-> docId])
  /\ UNCHANGED <<knowledgeBases, selectedKB, documents, file, uploadProgress,
                 kbError, processingDocs, processingProgress, kbDocs,
                 statusCase>>
  /\ UNCHANGED <<chatVars, coreVars>>

NotDoc(docId, doc) == doc.id # docId

\* the rest of handleDeleteDocument once the response is there
handleDeleteDocument_done(req, ok) ==
  /\ BagIn(req, kbNet) /\ req.op = "deleteDocument"
  /\ KbComplete(req)
  /\ IF ok /\ Stored(req.docId)
     THEN /\ kbDocs' = [kbDocs EXCEPT ![req.docId].status = "DELETED"]
          /\ documents' = SelectSeq(documents, LAMBDA doc : NotDoc(req.docId, doc))
          /\ UNCHANGED kbError
     ELSE /\ kbError' = "Delete failed"
          /\ UNCHANGED <<kbDocs, documents>>
  /\ deleteInProgress' = [deleteInProgress EXCEPT ![req.docId] = FALSE]
  /\ UNCHANGED <<knowledgeBases, selectedKB, file, uploadProgress,
                 processingDocs, processingProgress, statusCase>>
  /\ UNCHANGED <<chatVars, coreVars>>

\* --------------------------------------------------------- handleDeleteKB
\* click on a knowledge-base card's delete button, up to the await; the
\* button is inside the card and the click bubbles to the card's onClick,
\* which selects the knowledge base and fetches its documents
handleDeleteKB(kb) ==
  /\ kb \in Range(knowledgeBases)
  /\ ~deleteInProgress[kb]
  /\ BagCardinality(kbNet) + 1 < MaxKbInFlight
  /\ deleteInProgress' = [deleteInProgress EXCEPT ![kb] = TRUE]
  /\ selectedKB' = kb
  /\ kbNet' = kbNet (+) SetToBag({[op |-> "deleteKB", kbId |-> kb],
                                  fetchDocuments(kb, NoContinuation)})
  /\ UNCHANGED <<knowledgeBases, documents, file, uploadProgress, kbError,
                 processingDocs, processingProgress, kbDocs, statusCase>>
  /\ UNCHANGED <<chatVars, coreVars>>

NotKB(kbId, kb) == kb # kbId

\* DELETE /kb/{id} on the back end: the documents of the knowledge base go
\* with it, or stay behind
deletedKB(kbId, cascade) ==
  IF cascade
  THEN [d \in 1..Len(kbDocs) |->
          IF kbDocs[d].kb = kbId THEN [kbDocs[d] EXCEPT !.status = "DELETED"]
          ELSE kbDocs[d]]
  ELSE kbDocs

\* the rest of handleDeleteKB once the response is there
handleDeleteKB_done(req, ok, cascade) ==
  /\ BagIn(req, kbNet) /\ req.op = "deleteKB"
  /\ KbComplete(req)
  /\ IF ok
     THEN /\ kbDocs' = deletedKB(req.kbId, cascade)
          /\ knowledgeBases' = SelectSeq(knowledgeBases, LAMBDA kb : NotKB(req.kbId, kb))
          /\ UNCHANGED kbError
     ELSE /\ kbError' = "Delete Kb failed"
          /\ UNCHANGED <<kbDocs, knowledgeBases>>
  /\ deleteInProgress' = [deleteInProgress EXCEPT ![req.kbId] = FALSE]
  /\ UNCHANGED <<selectedKB, documents, file, uploadProgress,
                 processingDocs, processingProgress, statusCase>>
  /\ UNCHANGED <<chatVars, coreVars>>

\* the page over a back end that holds several knowledge bases: selecting,
\* uploading and deleting
KBPageNext ==
  \/ \E kb \in ListedKBIds : selectKB(kb)
  \/ \E req \in BagToSet(kbNet), ok \in BOOLEAN : fetchDocuments_done(req, ok)
  \/ \E kb \in ListedKBIds : handleDeleteKB(kb)
  \/ \E req \in BagToSet(kbNet), ok, cascade \in BOOLEAN :
       handleDeleteKB_done(req, ok, cascade)
  \/ \E f \in {None, 1} : setFile(f)
  \/ handleFileUpload
  \/ \E req \in BagToSet(kbNet), ok \in BOOLEAN : handleFileUpload_done(req, ok)
  \/ \E docId \in DocIds : handleDeleteDocument(docId)
  \/ \E req \in BagToSet(kbNet), ok \in BOOLEAN : handleDeleteDocument_done(req, ok)

KBNext ==
  \/ \E ok \in BOOLEAN : fetchKnowledgeBases_done(ok)
  \/ \E kb \in KBIds : selectKB(kb)
  \/ \E req \in BagToSet(kbNet), ok \in BOOLEAN : fetchDocuments_done(req, ok)
  \/ \E f \in {None, 1} : setFile(f)
  \/ handleFileUpload
  \/ \E req \in BagToSet(kbNet), ok \in BOOLEAN : handleFileUpload_done(req, ok)
  \/ \E docId \in DocIds : startDocumentProcessing(docId)
  \/ \E req \in BagToSet(kbNet) : process_accept(req)
  \/ \E req \in BagToSet(kbNet) : process_begin(req)
  \/ \E req \in BagToSet(kbNet), outcome \in Outcomes :
       startDocumentProcessing_done(req, outcome)
  \/ \E docId \in DocIds : handleDeleteDocument(docId)
  \/ \E req \in BagToSet(kbNet), ok \in BOOLEAN : handleDeleteDocument_done(req, ok)

\* ================================ knowledge-base forms (create and edit)
MaxKBs == 1
MaxTexts == 2
MaxAttempts == 2
MaxNumber == 2
MaxTextLen == 3

\* Object.keys(ragTypeMap), lines 285-292
ragTypeMap ==
  {"normal_rag", "hybrid_rag", "contextual_rag", "fusion_rag", "hyde_rag",
   "naive_rag"}

\* the numbers typed into the chunk size and chunk overlap inputs
NumberInputs == 0..MaxNumber

\* the embedding models and similarity metrics a knowledge base can have
EmbeddingModels == {"models/embedding-001", "text-embedding-3-small"}
SimilarityTypes == {"cosine", "dot"}

\* rag_config with the fields the forms edit; embedding_model and
\* similarity_type are those of newKBData, which no input of the create form
\* changes
RagConfig(rag_type, chunk_size, chunk_overlap) ==
  [rag_type |-> rag_type, chunk_size |-> chunk_size,
   chunk_overlap |-> chunk_overlap,
   embedding_model |-> "models/embedding-001", similarity_type |-> "cosine"]

\* editingKB === null
NoKB == [id |-> None]

FormInit ==
  /\ newKBData = RagConfig("normal_rag", 512, 64)
  /\ editingKB = NoKB

kbRest == <<selectedKB, documents, file, uploadProgress, processingDocs,
            processingProgress, deleteInProgress, kbNet, kbDocs, statusCase>>

ingestVars == <<corpus, vectorStore, runs, splitter>>

\* onValueChange / onChange of the create dialog, lines 676, 693, 699
setNewKBData(data) ==
  /\ Len(kbStore) < MaxKBs
  /\ newKBData' = data
  /\ UNCHANGED <<editingKB, kbStore, knowledgeBases, kbError, kbRest, ingestVars>>
  /\ UNCHANGED <<chatVars, engineVars, adminVars>>

\* GET /kb/: the knowledge bases with their rag_config
RECURSIVE listKBs(_)
listKBs(upTo) ==
  IF upTo = 0 THEN <<>>
  ELSE listKBs(upTo - 1) \o <<[id |-> upTo, rag_config |-> kbStore'[upTo]]>>

\* POST /kb/: the knowledge base is stored with the submitted configuration
createKB(body) == Append(kbStore, RagConfig(body.rag_type, body.chunk_size,
                                            body.chunk_overlap))

\* click on Create: POST newKBData, then fetchKnowledgeBases
handleCreateKB(ok, listed) ==
  /\ Len(kbStore) < MaxKBs
  /\ IF ok
     THEN /\ kbStore' = createKB(newKBData)
          /\ IF listed
             THEN knowledgeBases' = listKBs(Len(kbStore')) /\ UNCHANGED kbError
             ELSE kbError' = "Failed to fetch knowledge bases"
                  /\ UNCHANGED knowledgeBases
     ELSE /\ kbError' = "Failed to create knowledge base"
          /\ UNCHANGED <<kbStore, knowledgeBases>>
  /\ UNCHANGED <<newKBData, editingKB, kbRest, ingestVars>>
  /\ UNCHANGED <<chatVars, engineVars, adminVars>>

\* the fetchKnowledgeBases of the mount effect once the response is there,
\* with the rag_config of each knowledge base
fetchKnowledgeBases_records ==
  /\ BagIn([op |-> "fetchKnowledgeBases"], kbNet)
  /\ KbComplete([op |-> "fetchKnowledgeBases"])
  /\ UNCHANGED kbStore
  /\ knowledgeBases' = listKBs(Len(kbStore'))
  /\ UNCHANGED <<newKBData, editingKB, kbError, selectedKB, documents, file,
                 uploadProgress, processingDocs, processingProgress,
                 deleteInProgress, kbDocs, statusCase, ingestVars>>
  /\ UNCHANGED <<chatVars, engineVars, adminVars>>

\* click on the settings button of a listed knowledge base, lines 737-740
openEdit(i) ==
  /\ i \in 1..Len(knowledgeBases)
  /\ editingKB' = knowledgeBases[i]
  /\ UNCHANGED <<newKBData, kbStore, knowledgeBases, kbError, kbRest, ingestVars>>
  /\ UNCHANGED <<chatVars, engineVars, adminVars>>

setEditingKB_fromFormFields(rag_config) ==
  /\ editingKB # NoKB
  /\ editingKB' = [editingKB EXCEPT
                     !.rag_config = RagConfig(rag_config.rag_type,
                                              rag_config.chunk_size,
                                              rag_config.chunk_overlap)]
  /\ UNCHANGED <<newKBData, kbStore, knowledgeBases, kbError, kbRest, ingestVars>>
  /\ UNCHANGED <<chatVars, engineVars, adminVars>>

\* onValueChange / onChange of the edit dialog, lines 761-845
setEditingKB(rag_config) ==
  /\ editingKB # NoKB
  /\ editingKB' = [editingKB EXCEPT !.rag_config = rag_config]
  /\ UNCHANGED <<newKBData, kbStore, knowledgeBases, kbError, kbRest, ingestVars>>
  /\ UNCHANGED <<chatVars, engineVars, adminVars>>

\* Cancel button of the edit dialog, lines 852-857
cancelEdit ==
  /\ editingKB # NoKB
  /\ editingKB' = NoKB
  /\ UNCHANGED <<newKBData, kbStore, knowledgeBases, kbError, kbRest, ingestVars>>
  /\ UNCHANGED <<chatVars, engineVars, adminVars>>

\* PUT /kb/{id}: the submitted configuration replaces the stored one
updateKB(body) == [kbStore EXCEPT ![body.id] = body.rag_config]

\* click on Save Changes: PUT editingKB, then fetchKnowledgeBases
handleUpdateKB(ok, listed) ==
  /\ editingKB # NoKB
  /\ IF ok
     THEN /\ kbStore' = updateKB(editingKB)
          /\ IF listed
             THEN knowledgeBases' = listKBs(Len(kbStore')) /\ UNCHANGED kbError
             ELSE kbError' = "Failed to fetch knowledge bases"
                  /\ UNCHANGED knowledgeBases
     ELSE /\ kbError' = "Failed to update knowledge base"
          /\ UNCHANGED <<kbStore, knowledgeBases>>
  /\ UNCHANGED <<newKBData, editingKB, kbRest, ingestVars>>
  /\ UNCHANGED <<chatVars, engineVars, adminVars>>

\* ======================================================== AgentComponent
NumFoundations == 2
NumConfigs == 3
MaxAgentRecords == 1
MaxAgentInFlight == 2

FoundationIds == 1..NumFoundations
ConfigIds == 1..NumConfigs

\* Config.foundation_id: the foundation the config is bound to
foundation_id(config) == ((config - 1) % NumFoundations) + 1

\* GET /llm/foundations/{foundationId}/configs
configsOf(foundationId) == {c \in ConfigIds : foundation_id(c) = foundationId}

\* the fields of an agent the claims read; undefined is None
AgentBody(foundationId, configId) ==
  [foundation_id |-> foundationId, config_id |-> configId]

initialFormData == AgentBody(None, None)

\* editingAgent === null
NoAgent == [id |-> None]

AgentInit ==
  /\ foundations = {}
  /\ configs = {}
  /\ agentFormData = initialFormData
  /\ selectedFoundationId = None
  /\ editingAgent = NoAgent
  /\ agentList = <<>>
  /\ agentNet = SetToBag({[op |-> "fetchFoundations"]})
  /\ agentStore = <<>>

notAgent == <<chatVars, kbVars, newKBData, editingKB, kbStore, corpus,
              vectorStore, runs, splitter, engineVars, commVars>>

AgentCanSend == BagCardinality(agentNet) < MaxAgentInFlight

fetchFoundations_done(ok) ==
  /\ BagIn([op |-> "fetchFoundations"], agentNet)
  /\ agentNet' = agentNet (-) SetToBag({[op |-> "fetchFoundations"]})
  /\ foundations' = IF ok THEN FoundationIds ELSE foundations
  /\ UNCHANGED <<configs, agentFormData, selectedFoundationId, editingAgent,
                 agentList, agentStore>>
  /\ UNCHANGED notAgent

\* the call of fetchConfigsForFoundation up to its await
fetchConfigsForFoundation(foundationId) ==
  [op |-> "fetchConfigs", foundationId |-> foundationId]

\* the rest of fetchConfigsForFoundation once the response is there
fetchConfigsForFoundation_done(req, ok) ==
  /\ BagIn(req, agentNet) /\ req.op = "fetchConfigs"
  /\ agentNet' = agentNet (-) SetToBag({req})
  /\ configs' = IF ok THEN configsOf(req.foundationId) ELSE configs
  /\ UNCHANGED <<foundations, agentFormData, selectedFoundationId,
                 editingAgent, agentList, agentStore>>
  /\ UNCHANGED notAgent

\* onValueChange of the foundation <Select> of the create form, followed by
\* the [selectedFoundationId] effect
handleFoundationChange(foundationId) ==
  /\ foundationId \in foundations
  /\ selectedFoundationId' = foundationId
  /\ agentFormData' = AgentBody(foundationId, None)
  /\ IF foundationId # selectedFoundationId
     THEN /\ AgentCanSend
          /\ agentNet' = agentNet (+) SetToBag({fetchConfigsForFoundation(foundationId)})
     ELSE UNCHANGED agentNet
  /\ UNCHANGED <<foundations, configs, editingAgent, agentList, agentStore>>
  /\ UNCHANGED notAgent

\* onValueChange of the config <Select> of the create form, rendered once a
\* foundation is selected
handleConfigChange(configId) ==
  /\ selectedFoundationId # None
  /\ configId \in configs
  /\ agentFormData' = [agentFormData EXCEPT !.config_id = configId]
  /\ UNCHANGED <<foundations, configs, selectedFoundationId, editingAgent,
                 agentList, agentNet, agentStore>>
  /\ UNCHANGED notAgent

\* GET /agent/get-all
RECURSIVE listAgents(_)
listAgents(upTo) ==
  IF upTo = 0 THEN <<>>
  ELSE listAgents(upTo - 1) \o
       <<[id |-> upTo, foundation_id |-> agentStore'[upTo].foundation_id,
          config_id |-> agentStore'[upTo].config_id]>>

\* submit of the create form: POST formData, then fetchAgents and the reset
handleCreateAgent(ok) ==
  /\ Len(agentStore) < MaxAgentRecords
  /\ IF ok
     THEN /\ agentStore' = Append(agentStore, agentFormData)
          /\ agentList' = listAgents(Len(agentStore'))
          /\ agentFormData' = initialFormData
          /\ selectedFoundationId' = None
     ELSE UNCHANGED <<agentStore, agentList, agentFormData, selectedFoundationId>>
  /\ UNCHANGED <<foundations, configs, editingAgent, agentNet>>
  /\ UNCHANGED notAgent

\* the [editingAgent?.foundation_id] effect: fetch the configs of the
\* foundation when it has changed to a foundation
EditingEffect(before, after) ==
  IF after # None /\ after # before
  THEN /\ AgentCanSend
       /\ agentNet' = agentNet (+) SetToBag({fetchConfigsForFoundation(after)})
  ELSE UNCHANGED agentNet

EditingFoundation == IF editingAgent = NoAgent THEN None ELSE editingAgent.foundation_id

\* click on the settings button of a listed agent
openEditAgent(i) ==
  /\ i \in 1..Len(agentList)
  /\ editingAgent' = agentList[i]
  /\ EditingEffect(EditingFoundation, agentList[i].foundation_id)
  /\ UNCHANGED <<foundations, configs, agentFormData, selectedFoundationId,
                 agentList, agentStore>>
  /\ UNCHANGED notAgent

\* onValueChange of the foundation <Select> of the edit dialog
setEditingFoundation(foundationId) ==
  /\ editingAgent # NoAgent
  /\ foundationId \in foundations
  /\ editingAgent' = [editingAgent EXCEPT !.foundation_id = foundationId]
  /\ EditingEffect(EditingFoundation, foundationId)
  /\ UNCHANGED <<foundations, configs, agentFormData, selectedFoundationId,
                 agentList, agentStore>>
  /\ UNCHANGED notAgent

\* onValueChange of the config <Select> of the edit dialog
setEditingConfig(configId) ==
  /\ editingAgent # NoAgent
  /\ configId \in configs
  /\ editingAgent' = [editingAgent EXCEPT !.config_id = configId]
  /\ UNCHANGED <<foundations, configs, agentFormData, selectedFoundationId,
                 agentList, agentNet, agentStore>>
  /\ UNCHANGED notAgent

\* Cancel button of the edit dialog
cancelEditAgent ==
  /\ editingAgent # NoAgent
  /\ editingAgent' = NoAgent
  /\ UNCHANGED <<foundations, configs, agentFormData, selectedFoundationId,
                 agentList, agentNet, agentStore>>
  /\ UNCHANGED notAgent

\* click on Save Changes: PUT the agent, then fetchAgents and close
handleUpdateAgent(ok) ==
  /\ editingAgent # NoAgent
  /\ IF ok
     THEN /\ agentStore' = [agentStore EXCEPT ![editingAgent.id] =
                              AgentBody(editingAgent.foundation_id,
                                        editingAgent.config_id)]
          /\ agentList' = listAgents(Len(agentStore'))
          /\ editingAgent' = NoAgent
     ELSE UNCHANGED <<agentStore, agentList, editingAgent>>
  /\ UNCHANGED <<foundations, configs, agentFormData, selectedFoundationId,
                 agentNet>>
  /\ UNCHANGED notAgent

AgentPageNext ==
  \/ \E ok \in BOOLEAN : fetchFoundations_done(ok)
  \/ \E req \in BagToSet(agentNet), ok \in BOOLEAN :
       fetchConfigsForFoundation_done(req, ok)
  \/ \E foundationId \in FoundationIds : handleFoundationChange(foundationId)
  \/ \E configId \in ConfigIds : handleConfigChange(configId)
  \/ \E ok \in BOOLEAN : handleCreateAgent(ok)
  \/ \E i \in 1..MaxAgentRecords : openEditAgent(i)
  \/ \E foundationId \in FoundationIds : setEditingFoundation(foundationId)
  \/ \E configId \in ConfigIds : setEditingConfig(configId)
  \/ cancelEditAgent
  \/ \E ok \in BOOLEAN : handleUpdateAgent(ok)

\* ================================================ CommunicationComponent
NumMembers == 3
MaxGroups == 1

MemberIds == 1..NumMembers

\* editingCommunication === null
NoCommunication == [id |-> None]

CommInit ==
  /\ groupAgents = {}
  /\ groupFormData = [agent_ids |-> <<>>]
  /\ editingCommunication = NoCommunication
  /\ groupList = <<>>
  /\ groupNet = SetToBag({[op |-> "fetchAgents"]})
  /\ groupStore = <<>>

AdminInit == AgentInit /\ CommInit

notComm == <<chatVars, kbVars, newKBData, editingKB, kbStore, corpus,
             vectorStore, runs, splitter, engineVars, agentVars>>

\* fetchAgents of the component, once the response is there
fetchGroupAgents_done(ok) ==
  /\ BagIn([op |-> "fetchAgents"], groupNet)
  /\ groupNet' = groupNet (-) SetToBag({[op |-> "fetchAgents"]})
  /\ groupAgents' = IF ok THEN MemberIds ELSE groupAgents
  /\ UNCHANGED <<groupFormData, editingCommunication, groupList, groupStore>>
  /\ UNCHANGED notComm

\* Array.prototype.indexOf, 1-based; 0 for -1
indexOf(list, x) ==
  IF \E i \in 1..Len(list) : list[i] = x
  THEN CHOOSE i \in 1..Len(list) : list[i] = x /\ \A j \in 1..(i - 1) : list[j] # x
  ELSE 0

\* list.splice(index, 1)
splice(list, index) ==
  SubSeq(list, 1, index - 1) \o SubSeq(list, index + 1, Len(list))

currentAgents_alwaysPush(agent_ids, numericId) == Append(agent_ids, numericId)

\* lines 179-186: the list after the toggle of one checkbox
currentAgents(agent_ids, numericId) ==
  IF indexOf(agent_ids, numericId) = 0
  THEN Append(agent_ids, numericId)
  ELSE splice(agent_ids, indexOf(agent_ids, numericId))

\* onChange of an agent checkbox of the create form
handleAgentSelectionChange(agentId) ==
  /\ agentId \in groupAgents
  /\ groupFormData' = [groupFormData EXCEPT
                         !.agent_ids = currentAgents(@, agentId)]
  /\ UNCHANGED <<groupAgents, editingCommunication, groupList, groupNet,
                 groupStore>>
  /\ UNCHANGED notComm

\* GET /communication
RECURSIVE listCommunications(_)
listCommunications(upTo) ==
  IF upTo = 0 THEN <<>>
  ELSE listCommunications(upTo - 1) \o
       <<[id |-> upTo, agents |-> groupStore'[upTo]]>>

\* submit of the create form: POST formData, then fetchCommunications and
\* the reset
handleCreateCommunication(ok) ==
  /\ Len(groupStore) < MaxGroups
  /\ IF ok
     THEN /\ groupStore' = Append(groupStore, groupFormData.agent_ids)
          /\ groupList' = listCommunications(Len(groupStore'))
          /\ groupFormData' = [agent_ids |-> <<>>]
     ELSE UNCHANGED <<groupStore, groupList, groupFormData>>
  /\ UNCHANGED <<groupAgents, editingCommunication, groupNet>>
  /\ UNCHANGED notComm

\* click on the settings button of a listed communication
openEditCommunication(i) ==
  /\ i \in 1..Len(groupList)
  /\ editingCommunication' = groupList[i]
  /\ UNCHANGED <<groupAgents, groupFormData, groupList, groupNet, groupStore>>
  /\ UNCHANGED notComm

\* lines 321-323: agents.filter(a => a.id !== agent.id), or [...agents, agent]
updatedAgents(list, agent) ==
  IF \E i \in 1..Len(list) : list[i] = agent
  THEN SelectSeq(list, LAMBDA a : a # agent)
  ELSE Append(list, agent)

\* onChange of an agent checkbox of the edit dialog
toggleEditingAgent(agentId) ==
  /\ editingCommunication # NoCommunication
  /\ agentId \in groupAgents
  /\ editingCommunication' = [editingCommunication EXCEPT
                                !.agents = updatedAgents(@, agentId)]
  /\ UNCHANGED <<groupAgents, groupFormData, groupList, groupNet, groupStore>>
  /\ UNCHANGED notComm

\* Cancel button of the edit dialog
cancelEditCommunication ==
  /\ editingCommunication # NoCommunication
  /\ editingCommunication' = NoCommunication
  /\ UNCHANGED <<groupAgents, groupFormData, groupList, groupNet, groupStore>>
  /\ UNCHANGED notComm

\* click on Save Changes: PUT agent_ids = agents.map(agent => agent.id), then
\* fetchCommunications and close
handleUpdateCommunication(ok) ==
  /\ editingCommunication # NoCommunication
  /\ IF ok
     THEN /\ groupStore' = [groupStore EXCEPT ![editingCommunication.id] =
                              editingCommunication.agents]
          /\ groupList' = listCommunications(Len(groupStore'))
          /\ editingCommunication' = NoCommunication
     ELSE UNCHANGED <<groupStore, groupList, editingCommunication>>
  /\ UNCHANGED <<groupAgents, groupFormData, groupNet>>
  /\ UNCHANGED notComm

CommPageNext ==
  \/ \E ok \in BOOLEAN : fetchGroupAgents_done(ok)
  \/ \E agentId \in MemberIds : handleAgentSelectionChange(agentId)
  \/ \E ok \in BOOLEAN : handleCreateCommunication(ok)
  \/ \E i \in 1..MaxGroups : openEditCommunication(i)
  \/ \E agentId \in MemberIds : toggleEditingAgent(agentId)
  \/ cancelEditCommunication
  \/ \E ok \in BOOLEAN : handleUpdateCommunication(ok)

\* ========================================== chunking and ingestion pipeline
\* texts offered for upload: [content, len], len in characters
TextLengths == 0..MaxTextLen
Texts == [content : {1}, len : TextLengths]

Min(a, b) == IF a < b THEN a ELSE b

ConfigValid_allowEqual(config) == config.chunk_overlap <= config.chunk_size

\* overlap < size, else ConfigError
ConfigValid(config) == config.chunk_overlap < config.chunk_size

\* the chunk that starts at start: chunk_size characters, or what is left
ChunkEnd(len, config, start) == Min(start + config.chunk_size, len)

NextStart_noOverlap(config, start) == start + config.chunk_size

\* consecutive chunks share chunk_overlap characters
NextStart(config, start) == start + config.chunk_size - config.chunk_overlap

\* Embedding Gateway: text -> vector, a function of the chunk's text alone
embed(text, span) == (text.content * 31 + span[1] * 7 + span[2]) % 97

\* an engine that has not been called
Idle == [state |-> "IDLE"]

\* no run in progress for the document
NoRun == [attempts |-> 0]

\* the document has not been processed yet
NoResult == [error |-> "unprocessed", again |-> FALSE]

IngestInit ==
  /\ kbStore = <<>>
  /\ corpus = <<>>
  /\ vectorStore = {}
  /\ runs = [d \in 1..MaxTexts |-> NoRun]

EngineIdle == splitter = Idle /\ turn = Idle /\ search = Idle /\ session = Idle

CoreInit == FormInit /\ IngestInit /\ EngineIdle /\ AdminInit

formVars == <<newKBData, editingKB, kbStore, knowledgeBases, kbError, kbRest>>

\* a document is created on upload, status UPLOADED
ingest_upload(kb, text) ==
  /\ kb \in 1..Len(kbStore)
  /\ Len(corpus) < MaxTexts
  /\ corpus' = Append(corpus, [kb |-> kb, text |-> text, status |-> "UPLOADED",
                               result |-> NoResult])
  /\ UNCHANGED <<vectorStore, runs, splitter, formVars>>
  /\ UNCHANGED <<chatVars, engineVars, adminVars>>

\* process(document, kb_config): the run takes a snapshot of the
\* configuration and the document enters PENDING
process_start(d) ==
  /\ d \in 1..Len(corpus)
  /\ runs[d] = NoRun
  /\ corpus' = [corpus EXCEPT ![d].status = "PENDING"]
  /\ runs' = [runs EXCEPT ![d] = [config |-> kbStore[corpus[d].kb],
                                  start |-> 0, ordinal |-> 0, attempts |-> 1]]
  /\ UNCHANGED <<vectorStore, splitter, formVars>>
  /\ UNCHANGED <<chatVars, engineVars, adminVars>>

\* PENDING -> PROCESSING
process_run(d) ==
  /\ d \in 1..Len(corpus)
  /\ runs[d] # NoRun
  /\ corpus[d].status = "PENDING"
  /\ corpus' = [corpus EXCEPT ![d].status = "PROCESSING"]
  /\ UNCHANGED <<vectorStore, runs, splitter, formVars>>
  /\ UNCHANGED <<chatVars, engineVars, adminVars>>

\* the run ends: PROCESSED, or FAILED with the error; again tells a run that
\* completed on a document the run before it had completed on, too
Finish(d, status, err) ==
  /\ corpus' = [corpus EXCEPT ![d].status = status,
                              ![d].result =
                                [error |-> err,
                                 again |-> err = "none" /\ corpus[d].result.error = "none"]]
  /\ runs' = [runs EXCEPT ![d] = NoRun]

\* the chunks of other documents; prior chunks of d are overwritten once the
\* run writes its first chunk
Kept(d, ordinal) ==
  {c \in vectorStore : c.doc # d \/ (ordinal > 0 /\ c.ordinal # ordinal)}

process_step_appended(d) ==
  /\ d \in 1..Len(corpus)
  /\ runs[d] # NoRun
  /\ corpus[d].status = "PROCESSING"
  /\ LET run == runs[d]
         text == corpus[d].text
         end == ChunkEnd(text.len, run.config, run.start)
     IN IF ~ConfigValid(run.config)
        THEN Finish(d, "FAILED", "ConfigError") /\ UNCHANGED vectorStore
        ELSE IF run.start >= text.len
        THEN Finish(d, "PROCESSED", "none") /\ UNCHANGED vectorStore
        ELSE /\ vectorStore' = vectorStore \cup
                  {[kb |-> corpus[d].kb, doc |-> d,
                    ordinal |-> Cardinality({c \in vectorStore : c.doc = d}),
                    span |-> <<run.start, end>>,
                    vector |-> embed(text, <<run.start, end>>)]}
             /\ runs' = [runs EXCEPT ![d].ordinal = @ + 1,
                           ![d].start = IF end = text.len THEN end
                                        ELSE NextStart(run.config, run.start)]
             /\ UNCHANGED corpus
  /\ UNCHANGED <<splitter, formVars>>
  /\ UNCHANGED <<chatVars, engineVars, adminVars>>

\* one step of a run in PROCESSING: the configuration is checked, then each
\* chunk is embedded and upserted under (knowledge_base_id, document_id, ordinal)
process_step(d) ==
  /\ d \in 1..Len(corpus)
  /\ runs[d] # NoRun
  /\ corpus[d].status = "PROCESSING"
  /\ LET run == runs[d]
         text == corpus[d].text
         end == ChunkEnd(text.len, run.config, run.start)
     IN IF ~ConfigValid(run.config)
        THEN Finish(d, "FAILED", "ConfigError") /\ UNCHANGED vectorStore
        ELSE IF run.start >= text.len
        THEN /\ Finish(d, "PROCESSED", "none")
             /\ vectorStore' = IF run.ordinal = 0 THEN Kept(d, 0) ELSE vectorStore
        ELSE /\ vectorStore' = Kept(d, run.ordinal) \cup
                  {[kb |-> corpus[d].kb, doc |-> d, ordinal |-> run.ordinal,
                    span |-> <<run.start, end>>,
                    vector |-> embed(text, <<run.start, end>>)]}
             /\ runs' = [runs EXCEPT ![d].ordinal = @ + 1,
                           ![d].start = IF end = text.len THEN end
                                        ELSE NextStart(run.config, run.start)]
             /\ UNCHANGED corpus
  /\ UNCHANGED <<splitter, formVars>>
  /\ UNCHANGED <<chatVars, engineVars, adminVars>>

\* UpstreamError: an embedding or vector-store call of a valid run fails; it
\* is retried a bounded number of times, then the run fails
process_upstream_error(d) ==
  /\ d \in 1..Len(corpus)
  /\ runs[d] # NoRun
  /\ corpus[d].status = "PROCESSING"
  /\ ConfigValid(runs[d].config)
  /\ IF runs[d].attempts < MaxAttempts
     THEN runs' = [runs EXCEPT ![d].attempts = @ + 1] /\ UNCHANGED corpus
     ELSE Finish(d, "FAILED", "UpstreamError")
  /\ UNCHANGED <<vectorStore, splitter, formVars>>
  /\ UNCHANGED <<chatVars, engineVars, adminVars>>

\* timeout or crash: the run is gone, the document stays as it is
process_crash(d) ==
  /\ d \in 1..Len(corpus)
  /\ runs[d] # NoRun
  /\ runs' = [runs EXCEPT ![d] = NoRun]
  /\ UNCHANGED <<corpus, vectorStore, splitter, formVars>>
  /\ UNCHANGED <<chatVars, engineVars, adminVars>>

\* ------------------------------------------------- retrieval strategy tags
\* the six tagged variants of the retrieval interface
Strategies == {"naive", "hybrid", "hyde", "fusion", "contextual", "unstructured"}

\* the variant a rag_type names: the tag without its _rag suffix
StrategyOf(rag_type) ==
  CASE rag_type = "naive_rag" -> "naive"
    [] rag_type = "hybrid_rag" -> "hybrid"
    [] rag_type = "hyde_rag" -> "hyde"
    [] rag_type = "fusion_rag" -> "fusion"
    [] rag_type = "contextual_rag" -> "contextual"
    [] rag_type = "unstructured_rag" -> "unstructured"
    [] OTHER -> "none"

\* the retrieval strategy chosen in the create and edit forms
\* the edit dialog of a knowledge base
KBEditNext ==
  \/ fetchKnowledgeBases_records
  \/ \E i \in 1..MaxKBs : openEdit(i)
  \/ \E key \in ragTypeMap :
       setEditingKB([editingKB.rag_config EXCEPT !.rag_type = key])
  \/ \E v \in NumberInputs :
       setEditingKB([editingKB.rag_config EXCEPT !.chunk_size = v])
  \/ \E v \in NumberInputs :
       setEditingKB([editingKB.rag_config EXCEPT !.chunk_overlap = v])
  \/ cancelEdit
  \/ \E ok \in BOOLEAN : handleUpdateKB(ok, TRUE)

RagTypeNext ==
  \/ \E key \in ragTypeMap : setNewKBData([newKBData EXCEPT !.rag_type = key])
  \/ \E ok, listed \in BOOLEAN : handleCreateKB(ok, listed)
  \/ \E i \in 1..MaxKBs : openEdit(i)
  \/ \E key \in ragTypeMap :
       setEditingKB([editingKB.rag_config EXCEPT !.rag_type = key])
  \/ cancelEdit
  \/ \E ok, listed \in BOOLEAN : handleUpdateKB(ok, listed)

\* the chunk settings of the create and edit forms, and the processing of a
\* first document under the configuration they submitted
FormsNext ==
  \/ \E v \in NumberInputs : setNewKBData([newKBData EXCEPT !.chunk_size = v])
  \/ \E v \in NumberInputs : setNewKBData([newKBData EXCEPT !.chunk_overlap = v])
  \/ \E ok \in BOOLEAN : handleCreateKB(ok, TRUE)
  \/ \E i \in 1..MaxKBs : openEdit(i)
  \/ \E v \in NumberInputs :
       setEditingKB([editingKB.rag_config EXCEPT !.chunk_size = v])
  \/ \E v \in NumberInputs :
       setEditingKB([editingKB.rag_config EXCEPT !.chunk_overlap = v])
  \/ cancelEdit
  \/ \E ok \in BOOLEAN : handleUpdateKB(ok, TRUE)
  \/ Len(corpus) = 0 /\ ingest_upload(1, [content |-> 1, len |-> MaxTextLen])
  \/ process_start(1)
  \/ process_run(1)
  \/ process_step(1)

\* the ingestion pipeline under each configuration the create form submits
IngestNext ==
  \/ \E v \in NumberInputs : setNewKBData([newKBData EXCEPT !.chunk_size = v])
  \/ \E v \in NumberInputs : setNewKBData([newKBData EXCEPT !.chunk_overlap = v])
  \/ \E ok \in BOOLEAN : handleCreateKB(ok, TRUE)
  \/ \E kb \in 1..MaxKBs, text \in Texts : ingest_upload(kb, text)
  \/ \E d \in 1..MaxTexts : process_start(d)
  \/ \E d \in 1..MaxTexts : process_run(d)
  \/ \E d \in 1..MaxTexts : process_step(d)
  \/ \E d \in 1..MaxTexts : process_upstream_error(d)
  \/ \E d \in 1..MaxTexts : process_crash(d)

\* ================================================== the chunker on its own
\* the lengths of the texts split: the short ones, and the 2000 characters
\* of the end-to-end scenario
SplitLengths == TextLengths \cup {2000}

\* the configurations the create form submits: its defaults and typed numbers
SplitConfigs ==
  {RagConfig("normal_rag", size, overlap) :
     size \in NumberInputs \cup {512}, overlap \in NumberInputs \cup {64}}

StartSplit(len, config) ==
  [state |-> "SPLITTING", len |-> len, config |-> config, start |-> 0,
   chunks |-> <<>>]

Splits0 == {StartSplit(len, config) : len \in SplitLengths, config \in SplitConfigs}

\* the next chunk of the text, as process_step takes it
split_step ==
  /\ splitter.state = "SPLITTING"
  /\ LET end == ChunkEnd(splitter.len, splitter.config, splitter.start)
     IN splitter' =
          IF ~ConfigValid(splitter.config)
          THEN [splitter EXCEPT !.state = "ConfigError"]
          ELSE IF splitter.start >= splitter.len
          THEN [splitter EXCEPT !.state = "DONE"]
          ELSE [splitter EXCEPT
                  !.chunks = Append(@, <<splitter.start, end>>),
                  !.start = IF end = splitter.len THEN end
                            ELSE NextStart(splitter.config, splitter.start)]
  /\ UNCHANGED <<uiVars, engineVars>>

ChunkNext == split_step

\* ================================================ Agent Core: ReAct loop
MaxIterations == 4

\* the Foundation model behind the agent: one that requests a tool call at
\* every THINK, one that answers once it has observed a ToolError, and one
\* that may do anything, failing included
Foundations == {"always_tool", "adaptive", "free"}

\* the agent's one tool: it works, it always errors, or either
Tools == {"works", "errors", "flaky"}

Terminal == {"FINISH", "ABORTED", "FAILED"}

\* runAgentTurn(agent_config, conversation_history, user_message)
StartTurn(max_iterations, foundation, tool, knowledge_bases) ==
  [state |-> "START", max_iterations |-> max_iterations,
   foundation |-> foundation, tool |-> tool,
   knowledge_bases |-> knowledge_bases, iterations |-> 0,
   transcript |-> <<>>, outcome |-> [kind |-> "none", answer |-> "none"]]

Turns0 ==
  {StartTurn(m, f, t, k) : m \in 1..MaxIterations, f \in Foundations,
                           t \in Tools, k \in BOOLEAN}

\* START -> THINK; with knowledge bases attached a retrieval step is always
\* performed first and injected as context
agent_start ==
  /\ turn.state = "START"
  /\ turn' = [turn EXCEPT !.state = "THINK",
                !.transcript = IF turn.knowledge_bases
                               THEN <<[kind |-> "context", error |-> FALSE]>>
                               ELSE <<>>]
  /\ UNCHANGED <<uiVars, splitter, search, session>>

LastEntry == turn.transcript[Len(turn.transcript)]

\* what the Foundation model may emit at this THINK
Replies ==
  CASE turn.foundation = "always_tool" -> {"tool"}
    [] turn.foundation = "adaptive" ->
         IF turn.transcript # <<>> /\ LastEntry.kind = "observe" /\ LastEntry.error
         THEN {"final"} ELSE {"tool"}
    [] turn.foundation = "free" -> {"tool", "final", "error"}

agent_think_oneMore(reply) ==
  /\ turn.state = "THINK"
  /\ reply \in Replies
  /\ turn' =
       CASE reply = "tool" /\ turn.iterations > turn.max_iterations ->
              [turn EXCEPT !.state = "ABORTED",
                 !.outcome = [kind |-> "LoopExceeded", answer |-> "partial"]]
         [] reply = "tool" /\ turn.iterations <= turn.max_iterations ->
              [turn EXCEPT !.state = "ACT",
                 !.transcript = Append(@, [kind |-> "act", error |-> FALSE])]
         [] reply = "final" ->
              [turn EXCEPT !.state = "FINISH",
                 !.outcome = [kind |-> "answer", answer |-> "final"]]
         [] reply = "error" ->
              [turn EXCEPT !.state = "FAILED",
                 !.outcome = [kind |-> "UpstreamError", answer |-> "none"]]
  /\ UNCHANGED <<uiVars, splitter, search, session>>

\* THINK: the model emits a final answer (FINISH) or a tool invocation (ACT);
\* a tool invocation that would exceed the iteration count forces ABORTED
\* with LoopExceeded and a best-effort partial answer; an UpstreamError that
\* outlasts its retries fails the reasoning step
agent_think(reply) ==
  /\ turn.state = "THINK"
  /\ reply \in Replies
  /\ turn' =
       CASE reply = "tool" /\ turn.iterations >= turn.max_iterations ->
              [turn EXCEPT !.state = "ABORTED",
                 !.outcome = [kind |-> "LoopExceeded", answer |-> "partial"]]
         [] reply = "tool" /\ turn.iterations < turn.max_iterations ->
              [turn EXCEPT !.state = "ACT",
                 !.transcript = Append(@, [kind |-> "act", error |-> FALSE])]
         [] reply = "final" ->
              [turn EXCEPT !.state = "FINISH",
                 !.outcome = [kind |-> "answer", answer |-> "final"]]
         [] reply = "error" ->
              [turn EXCEPT !.state = "FAILED",
                 !.outcome = [kind |-> "UpstreamError", answer |-> "none"]]
  /\ UNCHANGED <<uiVars, splitter, search, session>>

ToolErrors ==
  CASE turn.tool = "works" -> {FALSE}
    [] turn.tool = "errors" -> {TRUE}
    [] turn.tool = "flaky" -> BOOLEAN

agent_act_failTurn(toolError) ==
  /\ turn.state = "ACT"
  /\ toolError \in ToolErrors
  /\ turn' = IF toolError
             THEN [turn EXCEPT !.state = "FAILED",
                     !.outcome = [kind |-> "ToolError", answer |-> "none"]]
             ELSE [turn EXCEPT !.state = "OBSERVE",
                     !.transcript = Append(@, [kind |-> "observe", error |-> FALSE])]
  /\ UNCHANGED <<uiVars, splitter, search, session>>

\* ACT: the tool is executed; its result, or its error, becomes an OBSERVE
\* appended to the transcript
agent_act(toolError) ==
  /\ turn.state = "ACT"
  /\ toolError \in ToolErrors
  /\ turn' = [turn EXCEPT !.state = "OBSERVE",
                !.transcript = Append(@, [kind |-> "observe", error |-> toolError])]
  /\ UNCHANGED <<uiVars, splitter, search, session>>

\* OBSERVE: one iteration is done, back to THINK
agent_observe ==
  /\ turn.state = "OBSERVE"
  /\ turn' = [turn EXCEPT !.iterations = @ + 1, !.state = "THINK"]
  /\ UNCHANGED <<uiVars, splitter, search, session>>

AgentNext ==
  \/ agent_start
  \/ \E reply \in {"tool", "final", "error"} : agent_think(reply)
  \/ \E toolError \in BOOLEAN : agent_act(toolError)
  \/ agent_observe

\* =============================================== Retrieval Strategy Engine
MaxChunks == 3
MaxVecs == 3
MaxRewrites == 2
MaxTopK == 2

\* the standard RRF constant
k_rrf == 60

\* the chunks of the knowledge base, and the embeddings a query, a rewrite or
\* a hypothetical document can have
ChunkIds == 1..MaxChunks
QueryVecs == 1..MaxVecs

\* vector similarity of an embedded text and a chunk under the configured metric
Sim(vec, chunk) == (vec * chunk + chunk) % (MaxChunks + 2)

Take(seq, n) == SubSeq(seq, 1, Min(n, Len(seq)))

\* the orderings of a set in which nothing comes after something it beats;
\* what the order of two chunks is when neither beats the other is not fixed
\* (beats is the set of the pairs <<a, b>> in which a beats b)
Rankings(S, beats) ==
  {r \in [1..Cardinality(S) -> S] :
     /\ \A i, j \in 1..Cardinality(S) : i # j => r[i] # r[j]
     /\ \A i, j \in 1..Cardinality(S) : i < j => <<r[j], r[i]>> \notin beats}

\* naive: top_k chunks by similarity to the embedded text
Naive(vec, top_k) ==
  {Take(r, top_k) : r \in Rankings(ChunkIds,
                    {p \in ChunkIds \X ChunkIds : Sim(vec, p[1]) > Sim(vec, p[2])})}

\* a result item: the chunk, its retrieval score, and the content returned
Item(vec, chunk, content) ==
  [chunk |-> chunk, score |-> Sim(vec, chunk), content |-> content]

Items(vec, chunks, content) ==
  [i \in 1..Len(chunks) |-> Item(vec, chunks[i], content)]

SearchStrategies == {"naive", "hyde", "fusion", "contextual"}

\* retrieve(query, kb, top_k)
StartSearch(strategy, query, top_k) ==
  [state |-> "START", strategy |-> strategy, query |-> query, top_k |-> top_k,
   probe |-> query, degraded |-> FALSE,
   rewrites |-> <<>>, lists |-> <<>>, next |-> 1,
   fused |-> [c \in ChunkIds |-> 0], minRank |-> [c \in ChunkIds |-> 0],
   candidates |-> <<>>, compressed |-> [c \in ChunkIds |-> "none"],
   result |-> <<>>]

Searches0 ==
  {StartSearch(s, q, k) : s \in SearchStrategies, q \in QueryVecs, k \in 1..MaxTopK}

\* naive goes straight to the vector search
retrieve_start ==
  /\ search.state = "START"
  /\ search.strategy = "naive"
  /\ search' = [search EXCEPT !.state = "SEARCH"]
  /\ UNCHANGED <<uiVars, splitter, turn, session>>

\* the vector search with the probe embedding: the query's, or the
\* hypothetical document's
retrieve_search ==
  /\ search.state = "SEARCH"
  /\ \E chunks \in Naive(search.probe, search.top_k) :
       search' = [search EXCEPT !.state = "DONE",
                    !.result = Items(search.probe, chunks, "original")]
  /\ UNCHANGED <<uiVars, splitter, turn, session>>

Rewrites == UNION {[1..n -> QueryVecs] : n \in 1..MaxRewrites}

retrieve_generate_abort(ok) ==
  /\ search.state = "START"
  /\ search.strategy \in {"hyde", "fusion"}
  /\ IF ~ok
     THEN search' = [search EXCEPT !.state = "ERROR"]
     ELSE IF search.strategy = "hyde"
     THEN \E h \in QueryVecs :
            search' = [search EXCEPT !.state = "SEARCH", !.probe = h]
     ELSE \E rewrites \in Rewrites :
            search' = [search EXCEPT !.state = "REWRITES", !.rewrites = rewrites]
  /\ UNCHANGED <<uiVars, splitter, turn, session>>

\* hyde, fusion: the auxiliary Foundation call generates the hypothetical
\* document, or the query rewrites; if it fails the strategy falls back to
\* naive search with the query
retrieve_generate(ok) ==
  /\ search.state = "START"
  /\ search.strategy \in {"hyde", "fusion"}
  /\ IF ~ok
     THEN search' = [search EXCEPT !.state = "SEARCH", !.degraded = TRUE]
     ELSE IF search.strategy = "hyde"
     THEN \E h \in QueryVecs :
            search' = [search EXCEPT !.state = "SEARCH", !.probe = h]
     ELSE \E rewrites \in Rewrites :
            search' = [search EXCEPT !.state = "REWRITES", !.rewrites = rewrites]
  /\ UNCHANGED <<uiVars, splitter, turn, session>>

\* fusion: naive search per rewrite, one ranked list each
fusion_search ==
  /\ search.state = "REWRITES"
  /\ \E list \in Naive(search.rewrites[search.next], search.top_k) :
       search' = [search EXCEPT
                    !.lists = Append(@, list),
                    !.next = IF search.next = Len(search.rewrites) THEN 1 ELSE @ + 1,
                    !.state = IF search.next = Len(search.rewrites)
                              THEN "FUSE" ELSE "REWRITES"]
  /\ UNCHANGED <<uiVars, splitter, turn, session>>

\* 1-based rank of the chunk in the list, 0 if it is not in it
RankOf(list, chunk) ==
  IF \E i \in 1..Len(list) : list[i] = chunk
  THEN CHOOSE i \in 1..Len(list) : list[i] = chunk
  ELSE 0

\* scores are kept as numerators over one common denominator
RECURSIVE Product(_)
Product(n) == IF n = 0 THEN 1 ELSE (k_rrf + n) * Product(n - 1)

\* a list holds at most top_k chunks
RrfDen == Product(MaxTopK)

\* 1 / (k_rrf + rank)
Reciprocal(rank) == RrfDen \div (k_rrf + rank)

Fold(fused, list) ==
  [c \in ChunkIds |->
     fused[c] + (IF RankOf(list, c) = 0 THEN 0 ELSE Reciprocal(RankOf(list, c)))]

FoldMin(minRank, list) ==
  [c \in ChunkIds |->
     IF RankOf(list, c) = 0 THEN minRank[c]
     ELSE IF minRank[c] = 0 THEN RankOf(list, c)
     ELSE Min(minRank[c], RankOf(list, c))]

fusion_fuse_lastListWins ==
  /\ search.state = "FUSE"
  /\ LET list == search.lists[search.next]
     IN search' = [search EXCEPT
                     !.fused = [c \in ChunkIds |->
                                  IF RankOf(list, c) = 0 THEN search.fused[c]
                                  ELSE Reciprocal(RankOf(list, c))],
                     !.minRank = FoldMin(@, list),
                     !.next = @ + 1,
                     !.state = IF search.next = Len(search.lists)
                               THEN "RANK" ELSE "FUSE"]
  /\ UNCHANGED <<uiVars, splitter, turn, session>>

\* Reciprocal Rank Fusion, list by list: each chunk of the list gains
\* 1 / (k_rrf + its rank in the list)
fusion_fuse ==
  /\ search.state = "FUSE"
  /\ LET list == search.lists[search.next]
     IN search' = [search EXCEPT
                     !.fused = Fold(@, list),
                     !.minRank = FoldMin(@, list),
                     !.next = @ + 1,
                     !.state = IF search.next = Len(search.lists)
                               THEN "RANK" ELSE "FUSE"]
  /\ UNCHANGED <<uiVars, splitter, turn, session>>

\* higher fused score first, ties broken by lowest minimum rank across lists
FusedBeats(fused, minRank, a, b) ==
  \/ fused[a] > fused[b]
  \/ fused[a] = fused[b] /\ minRank[a] < minRank[b]

FusedTopK(fused, minRank, top_k) ==
  {Take(r, top_k) :
     r \in Rankings({c \in ChunkIds : minRank[c] > 0},
                    {p \in ChunkIds \X ChunkIds :
                       FusedBeats(fused, minRank, p[1], p[2])})}

\* top_k by fused score
fusion_rank ==
  /\ search.state = "RANK"
  /\ \E chunks \in FusedTopK(search.fused, search.minRank, search.top_k) :
       search' = [search EXCEPT !.state = "DONE",
                    !.result = [i \in 1..Len(chunks) |->
                                  [chunk |-> chunks[i],
                                   score |-> search.fused[chunks[i]],
                                   content |-> "original"]]]
  /\ UNCHANGED <<uiVars, splitter, turn, session>>

\* contextual: naive retrieval of a larger candidate set
contextual_candidates ==
  /\ search.state = "START"
  /\ search.strategy = "contextual"
  /\ \E chunks \in Naive(search.query, search.top_k + 1) :
       search' = [search EXCEPT !.state = "COMPRESS", !.candidates = chunks]
  /\ UNCHANGED <<uiVars, splitter, turn, session>>

Compressions == {"spans", "empty", "fails"}

\* the next candidate is compressed by the Foundation model to its
\* query-relevant spans, possibly none; if the call fails the strategy falls
\* back to the naive result
contextual_compress(outcome) ==
  /\ search.state = "COMPRESS"
  /\ outcome \in Compressions
  /\ LET chunk == search.candidates[search.next]
     IN search' =
          IF outcome = "fails"
          THEN [search EXCEPT !.state = "DONE", !.degraded = TRUE,
                  !.result = Items(search.query,
                                   Take(search.candidates, search.top_k), "original")]
          ELSE [search EXCEPT
                  !.compressed[chunk] = outcome,
                  !.next = @ + 1,
                  !.state = IF search.next = Len(search.candidates)
                            THEN "RERANK" ELSE "COMPRESS"]
  /\ UNCHANGED <<uiVars, splitter, turn, session>>

\* the candidates as returned after compression, best original score first
Reranked(chunks) ==
  {Take(r, search.top_k) :
     r \in Rankings(chunks,
                    {p \in ChunkIds \X ChunkIds :
                       Sim(search.query, p[1]) > Sim(search.query, p[2])})}

Compressed(chunks) ==
  [i \in 1..Len(chunks) |->
     [chunk |-> chunks[i], score |-> Sim(search.query, chunks[i]),
      content |-> search.compressed[chunks[i]]]]

contextual_rerank_keepAll ==
  /\ search.state = "RERANK"
  /\ \E chunks \in Reranked(Range(search.candidates)) :
       search' = [search EXCEPT !.state = "DONE", !.result = Compressed(chunks)]
  /\ UNCHANGED <<uiVars, splitter, turn, session>>

\* candidates whose compression left no content are discarded, the survivors
\* are re-ranked by original retrieval score
contextual_rerank ==
  /\ search.state = "RERANK"
  /\ \E chunks \in Reranked({c \in Range(search.candidates) :
                                search.compressed[c] # "empty"}) :
       search' = [search EXCEPT !.state = "DONE", !.result = Compressed(chunks)]
  /\ UNCHANGED <<uiVars, splitter, turn, session>>

RetrieveNext ==
  \/ retrieve_start
  \/ retrieve_search
  \/ \E ok \in BOOLEAN : retrieve_generate(ok)
  \/ fusion_search
  \/ fusion_fuse
  \/ fusion_rank
  \/ contextual_candidates
  \/ \E outcome \in Compressions : contextual_compress(outcome)
  \/ contextual_rerank

\* =========================================== Orchestrator & Communication
MaxGroupTurns == 4

\* what a member agent is for, and what a message is about
Roles == {"sales", "support"}
Flavors == {"sales", "support", "neutral"}

\* the Communication's agents in the order they were registered
Groups == {<<"sales", "support">>, <<"support", "sales">>}

\* deterministic classifiers: by_message scores a member by the incoming
\* message alone, by_topic by the messages of the conversation so far, the
\* incoming one included
Classifiers == {"by_message", "by_topic"}

Sessions0 ==
  {[state |-> "READY", members |-> g, classifier |-> c, history |-> <<>>,
    responder |-> "none"] : g \in Groups, c \in Classifiers}

UserMessages(history) == SelectSeq(history, LAMBDA m : m.role = "user")
AssistantMessages(history) == SelectSeq(history, LAMBDA m : m.role = "assistant")

\* the score the classifier gives a member for this turn
Score(classifier, history, member) ==
  IF classifier = "by_message"
  THEN IF history[Len(history)].text = member THEN 1 ELSE 0
  ELSE Cardinality({i \in 1..Len(history) :
                      history[i].role = "user" /\ history[i].text = member})

\* route(conversation): the member with the best score, ties default to the
\* group's first-registered agent
route(members, classifier, history) ==
  LET best == {m \in Range(members) :
                 \A o \in Range(members) :
                    Score(classifier, history, m) >= Score(classifier, history, o)}
  IN IF Cardinality(best) = 1 THEN CHOOSE m \in best : TRUE ELSE members[1]

\* runCommunicationTurn: the user message joins the conversation history
session_receive(message) ==
  /\ session.state = "READY"
  /\ message \in Flavors
  /\ Len(AssistantMessages(session.history)) < MaxGroupTurns
  /\ session' = [session EXCEPT !.state = "CLASSIFY",
                   !.history = Append(@, [role |-> "user", text |-> message])]
  /\ UNCHANGED <<uiVars, splitter, turn, search>>

session_route_roundRobin ==
  /\ session.state = "CLASSIFY"
  /\ session' = [session EXCEPT !.state = "RESPOND",
                   !.responder =
                     LET answered == AssistantMessages(session.history)
                     IN IF answered = <<>> THEN session.members[1]
                        ELSE CHOOSE m \in Range(session.members) :
                               m # answered[Len(answered)].text]
  /\ UNCHANGED <<uiVars, splitter, turn, search>>

\* the classification step selects the member that responds to this turn
session_route ==
  /\ session.state = "CLASSIFY"
  /\ session' = [session EXCEPT !.state = "RESPOND",
                   !.responder = route(session.members, session.classifier,
                                       session.history)]
  /\ UNCHANGED <<uiVars, splitter, turn, search>>

\* the responder's reasoning loop answers: one assistant Message is appended
session_respond ==
  /\ session.state = "RESPOND"
  /\ session' = [session EXCEPT !.state = "READY", !.responder = "none",
                   !.history = Append(@, [role |-> "assistant",
                                          text |-> session.responder])]
  /\ UNCHANGED <<uiVars, splitter, turn, search>>

SessionNext ==
  \/ \E message \in Flavors : session_receive(message)
  \/ session_route
  \/ session_respond

\* ---------------------------------------------------------- specifications
\* both pages mounted, the back end spelling statuses either way
Init == ChatInit /\ KBInit /\ CoreInit

\* the chat page reads no document status: one spelling is enough
InitChat == ChatInit /\ KBInit /\ statusCase = "lower" /\ CoreInit

\* the chat page alone
SpecChat == InitChat /\ [][ChatNext]_vars

\* the knowledge-base page alone
SpecKB == Init /\ [][KBNext]_vars

\* the create and edit forms of the knowledge-base page
SpecRagType == InitChat /\ [][RagTypeNext]_vars

SpecForms == InitChat /\ [][FormsNext]_vars

\* the ingestion pipeline
SpecIngest == InitChat /\ [][IngestNext]_vars

\* one turn of a ReAct agent; the loop runs on: every awaited call returns
InitAgent ==
  /\ ChatInit /\ KBInit /\ statusCase = "lower"
  /\ FormInit /\ IngestInit
  /\ AdminInit
  /\ splitter = Idle /\ search = Idle /\ session = Idle
  /\ turn \in Turns0

SpecAgent == InitAgent /\ [][AgentNext]_vars /\ WF_vars(AgentNext)

\* the chunker applied to one text under one configuration
InitChunk ==
  /\ ChatInit /\ KBInit /\ statusCase = "lower"
  /\ FormInit /\ IngestInit
  /\ AdminInit
  /\ turn = Idle /\ search = Idle /\ session = Idle
  /\ splitter \in Splits0

SpecChunk == InitChunk /\ [][ChunkNext]_vars

\* one retrieve call
InitRetrieve ==
  /\ ChatInit /\ KBInit /\ statusCase = "lower"
  /\ FormInit /\ IngestInit
  /\ AdminInit
  /\ splitter = Idle /\ turn = Idle /\ session = Idle
  /\ search \in Searches0

SpecRetrieve == InitRetrieve /\ [][RetrieveNext]_vars

\* the edit dialog over a knowledge base that is stored and listed, whatever
\* its embedding model and similarity metric
InitKBEdit ==
  /\ ChatInit /\ KBInit /\ statusCase = "lower"
  /\ FormInit
  /\ corpus = <<>> /\ vectorStore = {} /\ runs = [d \in 1..MaxTexts |-> NoRun]
  /\ EngineIdle /\ AdminInit
  /\ \E model \in EmbeddingModels, metric \in SimilarityTypes :
       kbStore = <<[RagConfig("naive_rag", 512, 64) EXCEPT
                      !.embedding_model = model, !.similarity_type = metric]>>

SpecKBEdit == InitKBEdit /\ [][KBEditNext]_vars

\* the agent page alone
SpecAgentPage == InitChat /\ [][AgentPageNext]_vars

\* the communication page alone
SpecCommPage == InitChat /\ [][CommPageNext]_vars

\* one Communication-owned conversation
InitSession ==
  /\ ChatInit /\ KBInit /\ statusCase = "lower"
  /\ FormInit /\ IngestInit /\ AdminInit
  /\ splitter = Idle /\ turn = Idle /\ search = Idle
  /\ session \in Sessions0

SpecSession == InitSession /\ [][SessionNext]_vars

\* the knowledge-base page once its mount fetch has listed the knowledge
\* bases of the back end; the first of them holds one uploaded document
InitKBPage ==
  /\ ChatInit /\ CoreInit
  /\ knowledgeBases = [i \in ListedKBIds |-> i]
  /\ selectedKB = None
  /\ documents = <<>>
  /\ file = None
  /\ uploadProgress = 0
  /\ kbError = "null"
  /\ processingDocs = [d \in DocIds |-> FALSE]
  /\ processingProgress = [d \in DocIds |-> 0]
  /\ deleteInProgress = [i \in Ids |-> FALSE]
  /\ kbNet = EmptyBag
  /\ kbDocs = <<uploaded(1)>>
  /\ statusCase = "lower"

SpecKBPage == InitKBPage /\ [][KBPageNext]_vars

\* ======================================================= claims, chat side
Turns == 1..Len(chatCalls)
Awaiting(t) == chatCalls[t].pc = "awaiting"
InFlightOn(c) == {t \in Turns : Awaiting(t) /\ chatCalls[t].request.conversation_id = c}
ConversationIds == 1..Len(store)
Pending(s) == {i \in 1..Len(s) : s[i].pending}
Positions(s, m) == {i \in 1..Len(s) : s[i] = m}

\* C1: at most one turn is in flight per conversation at any time: while a
\* chat request for a conversation has not completed, no second chat request
\* for that conversation has been issued.
C1_AtMostOneInFlight ==
  \A c \in ConversationIds : Cardinality(InFlightOn(c)) <= 1

\* a second turn is in flight on the conversation that already took a turn
C1_Witness ==
  \E c \in ConversationIds, t \in Turns :
    /\ InFlightOn(c) = {t}
    /\ store[c].log # <<>>
    /\ currentConversation = c

\* C2: for every sendMessage whose chat request succeeds, exactly one
\* non-pending assistant message is added to the displayed messages, after
\* that turn's user message, and no pending placeholder remains.
C2_OneReplyAfterUserMessage ==
  [][\A t \in Turns :
       (Awaiting(t) /\ chatCalls'[t].pc = "resolved" /\ PanelRendered')
       => /\ Cardinality(Positions(messages', assistantMessage(t))) = 1
          /\ Len(filtered(messages')) = Len(filtered(messages)) + 1
          /\ \E i \in Positions(messages', userMessage(t)) :
               \A j \in Positions(messages', assistantMessage(t)) : i < j
          /\ Pending(messages') = {}]_vars

\* C3: when the chat request of sendMessage fails, the error state is set,
\* the pending placeholder is removed, and no assistant message of that turn
\* is ever in the displayed messages.
C3_FailedTurnIsError ==
  \A t \in Turns :
    chatCalls[t].pc = "rejected"
    => /\ error # ""
       /\ loadingMessage(t) \notin Range(messages)
       /\ assistantMessage(t) \notin Range(messages)

\* a turn failed and its user message is displayed without a reply
C3_Witness ==
  \E t \in Turns :
    /\ chatCalls[t].pc = "rejected"
    /\ error = "Failed to send message"
    /\ userMessage(t) \in Range(messages)
    /\ Pending(messages) = {}

\* C4: every chat request sent for a conversation carries the type of the
\* owner the conversation was created under.
C4_TypeIsOwnerType ==
  \A t \in Turns :
    Awaiting(t)
    => chatCalls[t].request.type = store[chatCalls[t].request.conversation_id].owner

\* C5: every create-conversation request goes to exactly one of the two
\* create endpoints and carries exactly one of agent_id and communication_id.
WellFormedCreate(request) ==
  \/ /\ request.url = "agent/create"
     /\ request.agent_id # None
     /\ request.communication_id = None
  \/ /\ request.url = "communication/create"
     /\ request.communication_id # None
     /\ request.agent_id = None

C5_CreateBoundToOneOwner ==
  \A req \in BagToSet(net) : req.op = "create" => WellFormedCreate(req.request)

\* a create request for a group is in flight after one for an agent succeeded
C5_Witness ==
  /\ \E req \in BagToSet(net) :
       req.op = "create" /\ req.request.url = "communication/create"
  /\ \E c \in ConversationIds : store[c].owner = "agent"

\* C7: while a turn is in flight on one conversation, a turn can still be
\* sent on a different conversation: the form of the other conversation is
\* not disabled.
C7_OtherConversationCanSend ==
  \A c \in ConversationIds :
    (/\ InFlightOn(c) # {}
     /\ PanelRendered
     /\ currentConversation # None
     /\ currentConversation # c)
    => /\ ~InputDisabled
       /\ (Trim(input) # <<>> => ~SubmitDisabled)

\* s occurs in t in the same relative order
RECURSIVE IsSubseq(_, _)
IsSubseq(s, t) ==
  IF s = <<>> THEN TRUE
  ELSE IF t = <<>> THEN FALSE
  ELSE IF Head(s) = Head(t) THEN IsSubseq(Tail(s), Tail(t))
  ELSE IsSubseq(s, Tail(t))

\* C6: once a non-pending message is displayed for a conversation, the
\* displayed list still contains it, in the same relative order, whenever
\* that conversation is the current one afterwards (here: in the next state,
\* after any single operation that leaves or makes it the current one).
C6_DisplayedMessagesKept ==
  [][\A c \in ConversationIds :
       (/\ currentConversation = c /\ PanelRendered
        /\ currentConversation' = c /\ PanelRendered')
       => IsSubseq(filtered(messages), filtered(messages'))]_vars

\* ========================================================= claims, KB side
ProcessInFlight(docId) ==
  \E req \in BagToSet(kbNet) : req.op = "process" /\ req.docId = docId

Displayed == Range(documents)

\* C8: a document's status changes only along UPLOADED -> PENDING ->
\* PROCESSING -> PROCESSED or FAILED; the only backward step is
\* FAILED -> PENDING; no other transition occurs.
StatusSteps ==
  {<<"UPLOADED", "PENDING">>, <<"PENDING", "PROCESSING">>,
   <<"PROCESSING", "PROCESSED">>, <<"PROCESSING", "FAILED">>,
   <<"FAILED", "PENDING">>}

RetrySteps ==
  {<<"FAILED", "PENDING">>, <<"PROCESSING", "PENDING">>,
   <<"PROCESSED", "PENDING">>}

C9_StartOfOtherEnabled ==
  \A a \in DocIds, doc \in Displayed :
    (/\ ProcessInFlight(a)
     /\ doc.id # a
     /\ ~processingDocs[doc.id]
     /\ toUpperCase(doc.status) \in {"UPLOADED", "FAILED"})
    => StartOffered(doc) /\ ~StartDisabled(doc)

C9_OtherUntouched ==
  \A req \in BagToSet(kbNet) :
    (/\ req.op = "process"
     /\ CopiesIn(req, kbNet') < CopiesIn(req, kbNet)
     /\ \A next \in BagToSet(kbNet') : next.op = "process" => BagIn(next, kbNet))
    => \A b \in DocIds \ {req.docId} :
         /\ processingDocs'[b] = processingDocs[b]
         /\ processingProgress'[b] = processingProgress[b]

C9_ProcessingIndependent ==
  [](C9_StartOfOtherEnabled) /\ [][C9_OtherUntouched]_vars

\* one document's run has completed while the other's request is in flight
C9_Witness ==
  \E a, b \in DocIds :
    /\ a # b
    /\ processingProgress[a] = 100
    /\ ProcessInFlight(b)
    /\ processingDocs[b]
    /\ processingProgress[b] = 0

\* C10: for a displayed document whose status is PROCESSING and for which
\* no process request is in flight, the process action can be re-issued:
\* Start is offered and enabled.
C10_ProcessingRetryable ==
  \A doc \in Displayed :
    (/\ Stored(doc.id)
     /\ kbDocs[doc.id].status = "PROCESSING"
     /\ toUpperCase(doc.status) = "PROCESSING"
     /\ ~ProcessInFlight(doc.id)
     /\ ~processingDocs[doc.id])
    => StartOffered(doc) /\ ~StartDisabled(doc)

\* C11: once a process request for a displayed document has failed and no
\* request is in flight, the document is shown with status FAILED and Start is
\* offered and enabled for it; a document shown as processed is never offered
\* Start.
C11_FailedShownWithRetry ==
  \A doc \in Displayed :
    /\ (/\ Stored(doc.id)
        /\ kbDocs[doc.id].status = "FAILED"
        /\ kbNet = EmptyBag)
       => /\ toUpperCase(doc.status) = "FAILED"
          /\ StartOffered(doc)
          /\ ~StartDisabled(doc)
    /\ toUpperCase(doc.status) = "PROCESSED" => ~StartOffered(doc)

\* ============================================= claims, forms and ingestion
ChunksOf(chunks, d) == {c \in chunks : c.doc = d}

Overlapping(config) == config.chunk_overlap >= config.chunk_size

\* C12: a run whose configuration has chunk_overlap >= chunk_size writes no
\* chunk, is never retried, and its first step in PROCESSING ends it in FAILED
\* with ConfigError; this holds for every such configuration submitted by the
\* create or edit form.
C12_RunStep ==
  \A d \in 1..Len(corpus) :
    (runs[d] # NoRun /\ Overlapping(runs[d].config))
    => /\ ChunksOf(vectorStore', d) \subseteq ChunksOf(vectorStore, d)
       /\ runs[d].attempts = 1 /\ runs[d].ordinal = 0
       /\ (corpus[d].status = "PROCESSING" /\ <<corpus, runs>>' # <<corpus, runs>>)
          => /\ runs'[d] = NoRun
             /\ corpus'[d].status = "FAILED"
             /\ corpus'[d].result.error = "ConfigError"

C12_OverlapIsConfigError == [][C12_RunStep]_vars

\* a configuration with chunk_overlap >= chunk_size was saved from the edit
\* form and the document processed under it has failed with ConfigError
C12_Witness ==
  /\ Len(corpus) >= 1
  /\ editingKB # NoKB
  /\ Overlapping(kbStore[1])
  /\ kbStore[1] = editingKB.rag_config
  /\ kbStore[1] # newKBData
  /\ corpus[1].status = "FAILED"
  /\ corpus[1].result.error = "ConfigError"
  /\ ChunksOf(vectorStore, 1) = {}

\* C13: the rag_type of every knowledge base submitted by the create or edit
\* form, the default of a new knowledge base included, selects one of the six
\* retrieval strategy variants, and each of the six can be selected.
C13_RagTypeSelectsStrategy ==
  /\ \A i \in 1..Len(kbStore) : StrategyOf(kbStore[i].rag_type) \in Strategies
  /\ kbStore # <<>> => \A s \in Strategies : \E key \in ragTypeMap : StrategyOf(key) = s

\* C16: a document processed under a configuration with chunk_size >
\* chunk_overlap holds, whenever a run of it has completed, exactly the chunks
\* one run over a clean store writes: the same ordinals, spans and embeddings
\* after a second run as after the first, and no chunk left over from an
\* earlier or an interrupted run.
RECURSIVE OneRun(_, _, _, _)
OneRun(d, config, start, ordinal) ==
  IF start >= corpus[d].text.len THEN {}
  ELSE LET end == ChunkEnd(corpus[d].text.len, config, start)
       IN {[kb |-> corpus[d].kb, doc |-> d, ordinal |-> ordinal,
            span |-> <<start, end>>,
            vector |-> embed(corpus[d].text, <<start, end>>)]} \cup
          (IF end = corpus[d].text.len THEN {}
           ELSE OneRun(d, config, NextStart(config, start), ordinal + 1))

C16_ReprocessIdempotent ==
  \A d \in 1..Len(corpus) :
    (/\ corpus[d].status = "PROCESSED"
     /\ kbStore[corpus[d].kb].chunk_size > kbStore[corpus[d].kb].chunk_overlap)
    => ChunksOf(vectorStore, d) = OneRun(d, kbStore[corpus[d].kb], 0, 0)

\* a document that had been processed before has been processed again, into
\* more than one chunk, next to a processed document of the same knowledge base
C16_Witness ==
  \E d, e \in 1..Len(corpus) :
    /\ d # e
    /\ corpus[d].status = "PROCESSED"
    /\ corpus[d].result.again
    /\ Cardinality(ChunksOf(vectorStore, d)) > 1
    /\ kbStore[corpus[d].kb].chunk_overlap > 0
    /\ corpus[e].status = "PROCESSED"
    /\ ChunksOf(vectorStore, e) # {}

\* ===================================================== claims, Agent Core
Count(entries, kind) == Cardinality({i \in 1..Len(entries) : entries[i].kind = kind})

\* C14: with a Foundation that requests a tool call at every THINK, the loop
\* performs at most max_iterations iterations and then ends in ABORTED with
\* LoopExceeded and a best-effort partial answer; it always ends, and never
\* as a hard failure.
C14_Bounded ==
  turn.foundation = "always_tool"
  => /\ turn.iterations <= turn.max_iterations
     /\ Count(turn.transcript, "act") <= turn.max_iterations
     /\ turn.state # "FAILED" /\ turn.state # "FINISH"
     /\ turn.state = "ABORTED"
        => /\ turn.iterations = turn.max_iterations
           /\ turn.outcome = [kind |-> "LoopExceeded", answer |-> "partial"]

C14_LoopTerminates ==
  /\ [](turn.state # "IDLE" => C14_Bounded)
  /\ (turn.state # "IDLE" /\ turn.foundation = "always_tool") ~> (turn.state = "ABORTED")

\* the loop has gone round max_iterations times and was aborted
C14_Witness ==
  /\ turn.state = "ABORTED"
  /\ turn.foundation = "always_tool"
  /\ turn.max_iterations = MaxIterations
  /\ Count(turn.transcript, "observe") = MaxIterations

\* C15: a step from ACT appends an OBSERVE to the transcript, carrying the
\* tool's error if it failed, and the step after it returns to THINK; no turn
\* fails with a ToolError; an agent whose only tool always errors, with a
\* model that answers once it has observed the error, reaches FINISH with a
\* final answer.
C15_ActStep ==
  /\ turn.state = "ACT"
     => /\ turn'.state = "OBSERVE"
        /\ Len(turn'.transcript) = Len(turn.transcript) + 1
        /\ SubSeq(turn'.transcript, 1, Len(turn.transcript)) = turn.transcript
        /\ turn'.transcript[Len(turn'.transcript)].kind = "observe"
        /\ turn.tool = "errors" => turn'.transcript[Len(turn'.transcript)].error
  /\ turn.state = "OBSERVE" => turn'.state = "THINK"

C15_ToolFailureIsObserved ==
  /\ [][C15_ActStep]_vars
  /\ [](turn.state = "FAILED" => turn.outcome.kind # "ToolError")
  /\ (turn.state # "IDLE" /\ turn.tool = "errors" /\ turn.foundation = "adaptive")
       ~> (turn.state = "FINISH" /\ turn.outcome = [kind |-> "answer", answer |-> "final"])

\* the tool has errored, the error was observed, and the model has answered
C15_Witness ==
  /\ turn.state = "FINISH"
  /\ turn.tool = "errors"
  /\ turn.foundation = "adaptive"
  /\ turn.max_iterations = 1
  /\ \E i \in 1..Len(turn.transcript) :
       turn.transcript[i].kind = "observe" /\ turn.transcript[i].error

\* ====================================================== claims, chunker
Scenario ==
  /\ splitter.state = "DONE"
  /\ splitter.len = 2000
  /\ splitter.config.chunk_size = 512
  /\ splitter.config.chunk_overlap = 64

NaiveResults ==
  {Items(search.query, chunks, "original") :
     chunks \in Naive(search.query, search.top_k)}

\* C18: retrieval never aborts because a generative sub-step failed: no
\* retrieve call ever ends in an error, a call whose auxiliary Foundation call
\* failed goes on to the vector search with the query, or is already done, and
\* what it returns is a ranked result of naive search for the query.
C18_DegradesToNaive ==
  /\ search.state # "ERROR"
  /\ search.state # "IDLE" /\ search.degraded =>
       /\ search.state \in {"SEARCH", "DONE"}
       /\ search.state = "SEARCH" => search.probe = search.query
       /\ search.state = "DONE" => search.result \in NaiveResults

C18_Witness ==
  /\ search.state = "DONE"
  /\ search.degraded
  /\ search.strategy = "fusion"
  /\ Len(search.result) = search.top_k

\* ----------------------------------------------------------------- C19
Perms(n) == {p \in [1..n -> 1..n] : \A i, j \in 1..n : i # j => p[i] # p[j]}

Permuted(lists, p) == [i \in 1..Len(lists) |-> lists[p[i]]]

\* the sum of 1 / (k_rrf + rank_i) over the first n lists where the chunk appears
RECURSIVE RrfSum(_, _, _)
RrfSum(lists, n, chunk) ==
  IF n = 0 THEN 0
  ELSE RrfSum(lists, n - 1, chunk)
         + (IF RankOf(lists[n], chunk) = 0 THEN 0
            ELSE Reciprocal(RankOf(lists[n], chunk)))

RrfScores(lists) == [c \in ChunkIds |-> RrfSum(lists, Len(lists), c)]

\* the lowest rank of the chunk across the lists, 0 if it is in none
MinRanks(lists) ==
  [c \in ChunkIds |->
     LET ranks == {RankOf(lists[i], c) : i \in 1..Len(lists)} \ {0}
     IN IF ranks = {} THEN 0 ELSE CHOOSE r \in ranks : \A q \in ranks : r <= q]

Fused == search.strategy = "fusion" /\ ~search.degraded /\ search.state \in {"RANK", "DONE"}

ScoresInvariant ==
  \A p \in Perms(Len(search.lists)) :
     /\ RrfScores(Permuted(search.lists, p)) = search.fused
     /\ MinRanks(Permuted(search.lists, p)) = search.minRank

ResultChunks == [i \in 1..Len(search.result) |-> search.result[i].chunk]

\* what a call with the lists reordered can return is what this call returned
TopKInvariant ==
  \A p \in Perms(Len(search.lists)) :
     \A chunks \in FusedTopK(RrfScores(Permuted(search.lists, p)),
                             MinRanks(Permuted(search.lists, p)), search.top_k) :
        chunks = ResultChunks

\* two chunks of the lists with the same fused score and the same minimum rank
ResidualTie ==
  \E a, b \in ChunkIds :
     /\ a # b
     /\ search.minRank[a] > 0 /\ search.minRank[b] > 0
     /\ search.fused[a] = search.fused[b]
     /\ search.minRank[a] = search.minRank[b]

Contextual == search.strategy = "contextual" /\ search.state = "DONE"

Paired(body) ==
  body.config_id # None => foundation_id(body.config_id) = body.foundation_id

\* C22: an agent is a Foundation+Config pair: every create-agent or
\* update-agent request that carries a config_id carries the id of a config
\* bound to the foundation of the same request; the back end stores the bodies
\* of the requests it accepts, so every stored agent is such a pair.
C22_ConfigBoundToFoundation ==
  \A i \in 1..Len(agentStore) : Paired(agentStore[i])

\* ----------------------------------------------------------------- C24
NoDuplicate(list) == \A i, j \in 1..Len(list) : i # j => list[i] # list[j]

\* the agent lists of the two forms and of the accepted requests
AgentLists ==
  {groupFormData.agent_ids}
    \cup (IF editingCommunication = NoCommunication THEN {}
          ELSE {editingCommunication.agents})
    \cup Range(groupStore)

\* C24: a Communication's agents form a set: whatever toggles were made, the
\* agent_ids of the create form, of the edit dialog and of every accepted
\* create or update request hold no id twice, and toggling one agent twice,
\* in either form, gives back the membership there was.
C24_AgentsFormASet ==
  /\ \A list \in AgentLists : NoDuplicate(list)
  /\ \A a \in groupAgents :
       /\ Range(currentAgents(currentAgents(groupFormData.agent_ids, a), a))
            = Range(groupFormData.agent_ids)
       /\ editingCommunication # NoCommunication =>
            Range(updatedAgents(updatedAgents(editingCommunication.agents, a), a))
              = Range(editingCommunication.agents)

\* a communication of two agents is stored, its edit dialog has toggled one
\* of them off and a third on, and the create form holds a toggled agent
C24_Witness ==
  /\ Len(groupStore) = 1
  /\ Len(groupStore[1]) = 2
  /\ editingCommunication # NoCommunication
  /\ Len(editingCommunication.agents) = 2
  /\ Range(editingCommunication.agents) # Range(groupStore[1])
  /\ Len(groupFormData.agent_ids) = 1

\* ----------------------------------------------------------------- C23
SameEmbedding(a, b) ==
  /\ a.embedding_model = b.embedding_model
  /\ a.similarity_type = b.similarity_type

C23_Dialog ==
  editingKB # NoKB => SameEmbedding(editingKB.rag_config, kbStore[editingKB.id])

C23_Update ==
  \A i \in 1..Len(kbStore) : SameEmbedding(kbStore'[i], kbStore[i])

\* C23: editing a knowledge base never changes its embedding model or
\* similarity metric: whatever changes to rag_type, chunk_size and
\* chunk_overlap are made in the edit dialog, the body Save Changes sends
\* carries the embedding_model and similarity_type the knowledge base had when
\* the edit began, and no update changes the two in the stored configuration.
C23_EmbeddingKept == []C23_Dialog /\ [][C23_Update]_vars

\* a knowledge base with another embedding model and metric than the create
\* form's has been updated with a new chunk size and is being edited again
C23_Witness ==
  /\ Len(kbStore) = 1
  /\ kbStore[1].embedding_model # "models/embedding-001"
  /\ kbStore[1].similarity_type # "cosine"
  /\ kbStore[1].chunk_size # 512
  /\ kbStore[1].rag_type # "naive_rag"
  /\ editingKB # NoKB
  /\ editingKB.rag_config # kbStore[1]

\* ----------------------------------------------------------------- C21
\* the turns answered so far: the user message and the assistant message of each
Answered == Len(AssistantMessages(session.history))
Asked(t) == UserMessages(session.history)[t].text
Responder(t) == AssistantMessages(session.history)[t].text

\* user and assistant messages alternate, and every responder is a member
OneResponderPerTurn ==
  /\ \A i \in 1..Len(session.history) :
       session.history[i].role = (IF i % 2 = 1 THEN "user" ELSE "assistant")
  /\ \A t \in 1..Answered : Responder(t) \in Range(session.members)

SameOnConsecutiveTurns ==
  \A t \in 1..(Answered - 1) : Asked(t) = Asked(t + 1) => Responder(t) = Responder(t + 1)

C25_ReplyOnlyInItsConversation ==
  [][/\ \A t \in Turns :
          (/\ Awaiting(t) /\ chatCalls'[t].pc = "resolved"
           /\ chatCalls[t].request.conversation_id # currentConversation)
          => assistantMessage(t) \notin Range(messages')
     /\ (currentConversation = None /\ currentConversation' = None)
          => (messages = <<>> => messages' = <<>>)]_vars

\* ----------------------------------------------------------------- C26
CreatesInFlight(n) == {req \in BagToSet(n) : req.op = "create"}

\* C26: every conversation successfully created by createNewConversation is
\* in the conversation list once all outstanding create responses have been
\* handled: the response that leaves no create request outstanding adds its
\* conversation and keeps those the list held, also when two create
\* requests overlapped.
C26_CreatedConversationsListed ==
  [][(Len(store') = Len(store) + 1 /\ CreatesInFlight(net') = {})
     => /\ \E i \in 1..Len(conversations') : conversations'[i].id = Len(store')
        /\ \A i \in 1..Len(conversations) :
             \E j \in 1..Len(conversations') :
                conversations'[j].id = conversations[i].id]_vars

\* ----------------------------------------------------------------- C27
\* C27: the displayed messages contain at most one pending message and none
\* whenever loading is false, and loading is false after every sendMessage,
\* whether its request succeeded or failed.
C27_State ==
  /\ Cardinality(Pending(messages)) <= 1
  /\ ~loading => Pending(messages) = {}

C27_Settled ==
  \A t \in Turns :
    (Awaiting(t) /\ chatCalls'[t].pc \in {"resolved", "rejected"}) => ~loading'

C27_PendingOnlyInFlight == []C27_State /\ [][C27_Settled]_vars

\* a failed turn has settled: loading is false again and the placeholder is
\* gone, the user message of the turn is still displayed
C27_Witness ==
  \E t \in Turns :
    /\ chatCalls[t].pc = "rejected"
    /\ ~loading
    /\ userMessage(t) \in Range(messages)
    /\ loadingMessage(t) \notin Range(messages)
    /\ \E u \in Turns : chatCalls[u].pc = "resolved"

\* ----------------------------------------------------------------- C28
\* C28: once all in-flight requests have completed (none of them failed),
\* the documents displayed are those of the selected knowledge base,
\* whatever the order in which the fetchDocuments responses arrived.
C28_DocumentsOfSelectedKB ==
  (/\ kbNet = EmptyBag
   /\ kbError = "null"
   /\ selectedKB \in Range(knowledgeBases))
  => documents = documentsOf(selectedKB, Len(kbDocs))

\* ----------------------------------------------------------------- C29
\* C29: the selected knowledge base always exists: selectedKB is null or a
\* member of knowledgeBases, so no upload or delete-document request is
\* issued against a knowledge base that handleDeleteKB has removed.
C29_SelectedKBExists ==
  [][/\ selectedKB' = None \/ selectedKB' \in Range(knowledgeBases')
     /\ \A req \in BagToSet(kbNet') :
          (req.op \in {"upload", "process", "deleteDocument"} /\ ~BagIn(req, kbNet))
          => req.kbId \in Range(knowledgeBases)]_vars

\* ----------------------------------------------------------------- C30
DeletingDocument(docId) ==
  \E req \in BagToSet(kbNet) : req.op = "deleteDocument" /\ req.docId = docId

DeletingKB(kbId) ==
  \E req \in BagToSet(kbNet) : req.op = "deleteKB" /\ req.kbId = kbId

\* C30: a document's delete-in-progress flag, read by its delete button, is
\* true only while a delete request for that document is in flight, and a
\* knowledge base's flag only while a delete request for that knowledge
\* base is in flight, also when the two have the same id value.
C30_DeleteFlagsSeparate ==
  /\ \A i \in 1..Len(documents) :
       DeleteDisabled(documents[i]) => DeletingDocument(documents[i].id)
  /\ \A kb \in Range(knowledgeBases) : deleteInProgress[kb] => DeletingKB(kb)

====
